---- MODULE Spec2Model ----
(***************************************************************************)
(* A model of the smart-food core: Recipe's step list (recipe.cpp), the    *)
(* Ingredient value object, Meal's serving scaling and cost roll-up, and   *)
(* the JSON serialisation of the three.                                    *)
(***************************************************************************)
EXTENDS Integers, Sequences, FiniteSets, TLC

(***************************************************************************)
(* Bounds of the model.                                                    *)
(***************************************************************************)
\* The most steps a recipe holds.
MaxSteps == 4
\* The largest step order a call passes or a shift produces.
MaxOrder == 5

(***************************************************************************)
(* Recipe::Step (recipe.hpp): order, description, duration.                *)
(***************************************************************************)
\* The (description, duration) pairs callers hand to addStep.
StepContents ==
    { [description |-> "mix", duration |-> 5],
      [description |-> "bake", duration |-> 30] }

\* The order arguments callers pass: non-positive ones included.
OrderArgs == (0 - 1) .. MaxOrder

Step(o, c) == [order |-> o, description |-> c.description, duration |-> c.duration]

\* The Step arguments callers pass to addStep.
StepArgs == { Step(o, c) : o \in OrderArgs, c \in StepContents }

Content(s) == [description |-> s.description, duration |-> s.duration]

\* A placeholder for the step argument of a call that takes none.
NoContent == [description |-> "", duration |-> 0]

VARIABLES
    steps,      \* Recipe::steps_ of the caller's recipe: the vector of Step
    stepCall,   \* the last step operation called: arguments, steps_ before it, outcome
    heap,       \* the live Ingredient objects, by handle (what a shared_ptr points to)
    recipe,     \* the caller's Recipe object (its fields other than steps_)
    meal,       \* the caller's Meal object
    otherMeal,  \* a second Meal object of the caller
    ownRecipe,  \* the Recipe object Meal::deserialize made for the meal, if it holds one
    mealCall,   \* the last Ingredient/Recipe/Meal operation called and its outcome
    storage,    \* Storage: meals_, recipes_ and ingredients_, each a map from id to entity
    storageCall, \* the last Storage operation called: arguments, the maps before it, outcome
    mutex,      \* Storage::mutex_: the thread holding it, or NoThread
    running     \* for each thread, the Storage operation it is in and how far it has got

stepVars == <<steps, stepCall>>

mealVars == <<heap, recipe, meal, otherMeal, ownRecipe, mealCall>>

lockVars == <<mutex, running>>

storageVars == <<storage, storageCall, lockVars>>

(***************************************************************************)
(* Helpers over a step vector.                                             *)
(***************************************************************************)
Orders(s) == { s[i].order : i \in 1 .. Len(s) }

\* std::find_if(begin, end, order == k): the first index holding order k, 0 for end().
FindOrder(s, k) ==
    IF \E i \in 1 .. Len(s) : s[i].order = k
    THEN CHOOSE i \in 1 .. Len(s) :
             /\ s[i].order = k
             /\ \A j \in 1 .. (i - 1) : s[j].order # k
    ELSE 0

\* vector::erase(it)
Erase(s, i) == [j \in 1 .. (Len(s) - 1) |-> IF j < i THEN s[j] ELSE s[j + 1]]

RECURSIVE SortFrom(_, _)
\* What std::sort with the comparator a.order < b.order may leave: any arrangement
\* of the same elements in which no element is followed by a smaller one (the sort
\* is not stable, so equal orders may end in either sequence).
SortFrom(s, idx) ==
    IF idx = {}
    THEN { <<>> }
    ELSE UNION { { <<s[i]>> \o t : t \in SortFrom(s, idx \ {i}) } :
                 i \in { i \in idx : \A j \in idx : ~(s[j].order < s[i].order) } }

\* The vector left as it is, the sort skipped.
SortSkipped(s) == { s }

SortResults(s) == SortFrom(s, 1 .. Len(s))

(***************************************************************************)
(* Recipe::addStep                                                         *)
(***************************************************************************)
\* A slip in the shift: only the steps after the requested order move.
AddStepShiftedOffByOne(s, k) ==
    [i \in 1 .. Len(s) |->
        IF s[i].order > k THEN [s[i] EXCEPT !.order = @ + 1] ELSE s[i]]

\* The loop of lines 169-173: every step at or after order k moves up by one.
AddStepShifted(s, k) ==
    [i \in 1 .. Len(s) |->
        IF s[i].order >= k THEN [s[i] EXCEPT !.order = @ + 1] ELSE s[i]]

\* steps_ after the duplicate check, the shift and the push_back, before the sort.
AddStepPushed(s, step) ==
    Append(IF FindOrder(s, step.order) # 0 THEN AddStepShifted(s, step.order) ELSE s,
           step)

\* The check of lines 157-159.
AddStepThrows(step) == step.order <= 0

AddStep(step) ==
    /\ IF AddStepThrows(step)
       THEN /\ steps' = steps
            /\ stepCall' = [op |-> "addStep", a |-> step.order, b |-> 0,
                            content |-> Content(step), pre |-> steps, threw |-> TRUE]
       ELSE /\ Len(steps) < MaxSteps
            /\ \A o \in Orders(AddStepPushed(steps, step)) : o <= MaxOrder
            /\ steps' \in SortResults(AddStepPushed(steps, step))
            /\ stepCall' = [op |-> "addStep", a |-> step.order, b |-> 0,
                            content |-> Content(step), pre |-> steps, threw |-> FALSE]
    /\ UNCHANGED <<mealVars, storageVars>>

(***************************************************************************)
(* Recipe::removeStep                                                      *)
(***************************************************************************)
\* A slip in the renumbering: counting from 0.
RenumberedFromZero(s) == [i \in 1 .. Len(s) |-> [s[i] EXCEPT !.order = i - 1]]

\* The loop of lines 195-198: orders 1, 2, ... in vector sequence.
Renumbered(s) == [i \in 1 .. Len(s) |-> [s[i] EXCEPT !.order = i]]

\* A slip in removeStep: the orders are rewritten whether or not a step was found.
RemoveStepRenumbersAlways(s, order) ==
    Renumbered(IF FindOrder(s, order) # 0 THEN Erase(s, FindOrder(s, order)) ELSE s)

RemoveStepResult(s, order) ==
    IF FindOrder(s, order) # 0 THEN Renumbered(Erase(s, FindOrder(s, order))) ELSE s

RemoveStep(order) ==
    /\ steps' = RemoveStepResult(steps, order)
    /\ stepCall' = [op |-> "removeStep", a |-> order, b |-> 0,
                    content |-> NoContent, pre |-> steps, threw |-> FALSE]
    /\ UNCHANGED <<mealVars, storageVars>>

(***************************************************************************)
(* Recipe::reorderStep                                                     *)
(***************************************************************************)
\* A slip in the shift: the step at the target order is left where it is.
ReorderShiftedExclusive(s, oldOrder, newOrder) ==
    [i \in 1 .. Len(s) |->
        IF oldOrder < newOrder
        THEN IF s[i].order > oldOrder /\ s[i].order < newOrder
             THEN [s[i] EXCEPT !.order = @ - 1] ELSE s[i]
        ELSE IF s[i].order > newOrder /\ s[i].order < oldOrder
             THEN [s[i] EXCEPT !.order = @ + 1] ELSE s[i]]

\* The loop of lines 221-231 over the steps left after the erase.
ReorderShifted(s, oldOrder, newOrder) ==
    [i \in 1 .. Len(s) |->
        IF oldOrder < newOrder
        THEN IF s[i].order > oldOrder /\ s[i].order <= newOrder
             THEN [s[i] EXCEPT !.order = @ - 1] ELSE s[i]
        ELSE IF s[i].order >= newOrder /\ s[i].order < oldOrder
             THEN [s[i] EXCEPT !.order = @ + 1] ELSE s[i]]

\* A slip in the move: a default-constructed Step is pushed under the new order.
ReorderPushedDefault(s, oldOrder, newOrder) ==
    Append(ReorderShifted(Erase(s, FindOrder(s, oldOrder)), oldOrder, newOrder),
           Step(newOrder, NoContent))

\* steps_ after the erase, the shift and the push_back, before the sort.
ReorderPushed(s, oldOrder, newOrder) ==
    Append(ReorderShifted(Erase(s, FindOrder(s, oldOrder)), oldOrder, newOrder),
           [s[FindOrder(s, oldOrder)] EXCEPT !.order = newOrder])

\* A slip in the check: an order of 0 is let through.
ReorderStepThrowsBelowZero(s, oldOrder, newOrder) ==
    oldOrder < 0 \/ newOrder < 0 \/ FindOrder(s, oldOrder) = 0

\* The checks of lines 203-205 and 212-214.
ReorderStepThrows(s, oldOrder, newOrder) ==
    oldOrder <= 0 \/ newOrder <= 0 \/ FindOrder(s, oldOrder) = 0

ReorderStep(oldOrder, newOrder) ==
    /\ IF ReorderStepThrows(steps, oldOrder, newOrder)
       THEN /\ steps' = steps
            /\ stepCall' = [op |-> "reorderStep", a |-> oldOrder, b |-> newOrder,
                            content |-> NoContent, pre |-> steps, threw |-> TRUE]
       ELSE /\ \A o \in Orders(ReorderPushed(steps, oldOrder, newOrder)) : o <= MaxOrder
            /\ steps' \in SortResults(ReorderPushed(steps, oldOrder, newOrder))
            /\ stepCall' = [op |-> "reorderStep", a |-> oldOrder, b |-> newOrder,
                            content |-> NoContent, pre |-> steps, threw |-> FALSE]
    /\ UNCHANGED <<mealVars, storageVars>>

(***************************************************************************)
(* double: the quantities, prices, nutrient values and costs.  A value is  *)
(* the exact fraction n/d in lowest terms with d > 0; d = 0 holds the      *)
(* values a division by zero produces: 1/0 is +inf, (-1)/0 is -inf and     *)
(* 0/0 is NaN.  Rounding is not modelled.                                  *)
(***************************************************************************)
RECURSIVE Gcd(_, _)
Gcd(a, b) == IF b = 0 THEN a ELSE Gcd(b, a % b)

Abs(x) == IF x < 0 THEN 0 - x ELSE x

Sign(x) == IF x < 0 THEN 0 - 1 ELSE IF x > 0 THEN 1 ELSE 0

\* The double n/d, d >= 0.
Dbl(n, d) ==
    IF d = 0
    THEN [n |-> Sign(n), d |-> 0]
    ELSE [n |-> n \div Gcd(Abs(n), d), d |-> d \div Gcd(Abs(n), d)]

Zero == Dbl(0, 1)

NaN == Dbl(0, 0)

IsFinite(x) == x.d # 0

\* static_cast<double>(a) / b for ints a and b
IntRatio(a, b) == IF b < 0 THEN Dbl(0 - a, 0 - b) ELSE Dbl(a, b)

\* x * y
Times(x, y) == Dbl(x.n * y.n, x.d * y.d)

\* x + y
Plus(x, y) ==
    IF x.d = 0 /\ y.d = 0
    THEN (IF x = y THEN x ELSE NaN)
    ELSE Dbl(x.n * y.d + y.n * x.d, x.d * y.d)

\* x < 0 (false for NaN)
Negative(x) == x.n < 0

\* x <= 0 (false for NaN)
NotPositive(x) == x.n < 0 \/ (x.n = 0 /\ x.d # 0)

(***************************************************************************)
(* Ingredient (part_000)                                                   *)
(***************************************************************************)
\* How many Ingredient objects the caller constructs.
MaxIngredients == 2
\* The most ingredients a meal's or a recipe's list holds.
MaxListLen == 2
\* The largest serving count a caller passes.
MaxServings == 2
\* The largest numerator or denominator of a quantity a scaling may produce.
MaxQuantity == 4

\* enum class Unit: GRAM is the first enumerator.
GRAM == 0

\* The ids generateId() may draw: 8 random hex digits, so an object may draw an id
\* an earlier object drew.  Ids are only ever compared for equality, so the
\* ingredient made after n others draws one of the first n + 1 ids.
Ids == << "ing_1", "ing_2", "ing_3" >>

IdSpace == { Ids[i] : i \in 1 .. Len(Ids) }

GenerateId(made) == { Ids[i] : i \in 1 .. (made + 1) }

\* The default-constructed time_point (the clock's epoch), in clock ticks.
Epoch == 0

\* Ticks of system_clock in one second of time_t.
TicksPerSecond == 1000

\* std::chrono::system_clock::to_time_t and from_time_t
ToTimeT(tp) == tp \div TicksPerSecond

FromTimeT(s) == s * TicksPerSecond

\* An empty std::map<std::string, double>.
EmptyMap == [k \in {} |-> Zero]

\* Ingredient(name, quantity, unit): unit price 0, no expiry, no nutrients.
NewIngredient(id, name, quantity, unit) ==
    [id |-> id, name |-> name, quantity |-> quantity, unit |-> unit,
     unitPrice |-> Zero, expiryDate |-> Epoch, nutritionalInfo |-> EmptyMap]

\* Ingredient::calculateCost
CalculateCost(ing) == Times(ing.quantity, ing.unitPrice)

\* Ingredient::scale, once past its check of the factor.
Scaled(ing, factor) == [ing EXCEPT !.quantity = Times(@, factor)]

\* A handle no live object has yet: the caller's objects take 1..MaxIngredients,
\* the objects a Meal or a deserialization makes take the handles above.
CallerHandles == 1 .. MaxIngredients

\* The ingredients a list of handles points to, as values.
Deref(h, list) == [i \in 1 .. Len(list) |-> h[list[i]]]

Put(h, handle, ing) ==
    [x \in (DOMAIN h) \cup {handle} |-> IF x = handle THEN ing ELSE h[x]]

Range(list) == { list[i] : i \in 1 .. Len(list) }

\* The sum a loop of "total += f(element)" leaves, starting from 0.0.
RECURSIVE SumOf(_)
SumOf(values) ==
    IF Len(values) = 0
    THEN Zero
    ELSE Plus(SumOf(SubSeq(values, 1, Len(values) - 1)), values[Len(values)])

(***************************************************************************)
(* nlohmann::json values and their text.  A value carries its type; the    *)
(* text dump() writes is held as the value it denotes, which parse() gives *)
(* back.  A string value holding a dumped document is a string, not the    *)
(* document's object.                                                      *)
(***************************************************************************)
JNull == [t |-> "null"]

JStr(s) == [t |-> "string", v |-> s]

JInt(i) == [t |-> "int", v |-> i]

\* A double member; dump() writes a NaN or an infinity as null.
JNum(x) == IF IsFinite(x) THEN [t |-> "number", v |-> x] ELSE JNull

JArr(elements) == [t |-> "array", v |-> elements]

JObj(members) == [t |-> "object", v |-> members]

\* j = std::map<std::string, double>
JMap(m) == JObj([k \in DOMAIN m |-> JNum(m[k])])

Dump(j) == [text |-> j]

Parse(data) == data.text

\* What a call that raised returns, and what one that returned does.
Threw == [ok |-> FALSE]

Returned(v) == [ok |-> TRUE, v |-> v]

(***************************************************************************)
(* Ingredient::serialize / Ingredient::deserialize                         *)
(***************************************************************************)
IngredientSerialize(ing) ==
    Dump(JObj([id |-> JStr(ing.id),
               name |-> JStr(ing.name),
               quantity |-> JNum(ing.quantity),
               unit |-> JInt(ing.unit),
               unitPrice |-> JNum(ing.unitPrice),
               expiryDate |-> JInt(ToTimeT(ing.expiryDate)),
               nutritionalInfo |-> JMap(ing.nutritionalInfo)]))

\* operator[] with a key on a value that is neither an object nor null raises
\* type_error, as does get<double>() on null; the setters raise on a negative.
IngredientDeserialize(data) ==
    LET j == Parse(data)
    IN  IF j.t # "object" THEN Threw
        ELSE IF j.v.quantity.t # "number" \/ j.v.unitPrice.t # "number" THEN Threw
        ELSE IF Negative(j.v.quantity.v) \/ Negative(j.v.unitPrice.v) THEN Threw
        ELSE IF \E k \in DOMAIN j.v.nutritionalInfo.v :
                    \/ j.v.nutritionalInfo.v[k].t # "number"
                    \/ Negative(j.v.nutritionalInfo.v[k].v)
             THEN Threw
        ELSE Returned([id |-> j.v.id.v,
                       name |-> j.v.name.v,
                       quantity |-> j.v.quantity.v,
                       unit |-> j.v.unit.v,
                       unitPrice |-> j.v.unitPrice.v,
                       expiryDate |-> FromTimeT(j.v.expiryDate.v),
                       nutritionalInfo |->
                           [k \in DOMAIN j.v.nutritionalInfo.v |->
                               j.v.nutritionalInfo.v[k].v]])

(***************************************************************************)
(* Recipe (recipe.cpp), as a value: the ingredients held as values.        *)
(***************************************************************************)
\* enum class Difficulty: EASY is the first enumerator.
EASY == 0

\* The values of one nutrient over the ingredients that list it, in list sequence.
NutrientValues(ings, k) ==
    LET having == SelectSeq(ings, LAMBDA ing : k \in DOMAIN ing.nutritionalInfo)
    IN  [i \in 1 .. Len(having) |-> having[i].nutritionalInfo[k]]

\* A slip in the loop: nutritionalInfo_[nutrient] = value, the last ingredient
\* listing a nutrient overwriting the earlier ones.
RecalculateOverwriting(ings) ==
    [k \in UNION { DOMAIN ings[i].nutritionalInfo : i \in 1 .. Len(ings) } |->
        NutrientValues(ings, k)[Len(NutrientValues(ings, k))]]

\* Recipe::recalculateNutritionalInfo: clear, then add every ingredient's values.
RecalculateNutritionalInfo(ings) ==
    [k \in UNION { DOMAIN ings[i].nutritionalInfo : i \in 1 .. Len(ings) } |->
        SumOf(NutrientValues(ings, k))]

RecipeSerialize(r) ==
    Dump(JObj([id |-> JStr(r.id),
               name |-> JStr(r.name),
               description |-> JStr(r.description),
               difficulty |-> JInt(r.difficulty),
               servings |-> JInt(r.servings),
               ingredients |->
                   JArr([i \in 1 .. Len(r.ingredients) |->
                            JStr(IngredientSerialize(r.ingredients[i]))]),
               steps |->
                   JArr([i \in 1 .. Len(r.steps) |->
                            JObj([order |-> JInt(r.steps[i].order),
                                  description |-> JStr(r.steps[i].description),
                                  duration |-> JInt(r.steps[i].duration)])]),
               nutritionalInfo |-> JMap(r.nutritionalInfo)]))

\* The step vectors the loop of addStep calls over the first n steps of the
\* document may leave (the orders are all positive).
RECURSIVE StepsAdded(_, _)
StepsAdded(arr, n) ==
    IF n = 0
    THEN { <<>> }
    ELSE UNION { SortResults(AddStepPushed(s, [order |-> arr[n].v.order.v,
                                               description |-> arr[n].v.description.v,
                                               duration |-> arr[n].v.duration.v])) :
                 s \in StepsAdded(arr, n - 1) }

\* Every result Recipe::deserialize may return for a document: the recipes, or
\* Threw when a step of it raises.
RecipeDeserialize(data) ==
    LET j == Parse(data)
        ings == [i \in 1 .. Len(j.v.ingredients.v) |->
                    IngredientDeserialize(Dump(j.v.ingredients.v[i]))]
    IN  IF j.t # "object" THEN { Threw }
        ELSE IF j.v.name.v = "" \/ j.v.servings.v <= 0 THEN { Threw }
        ELSE IF \E i \in 1 .. Len(ings) : ~ings[i].ok THEN { Threw }
        ELSE IF \E i \in 1 .. Len(j.v.steps.v) : j.v.steps.v[i].v.order.v <= 0
             THEN { Threw }
        ELSE IF \E k \in DOMAIN j.v.nutritionalInfo.v :
                    j.v.nutritionalInfo.v[k].t # "number"
             THEN { Threw }
        ELSE { Returned([id |-> j.v.id.v,
                         name |-> j.v.name.v,
                         description |-> j.v.description.v,
                         difficulty |-> j.v.difficulty.v,
                         servings |-> j.v.servings.v,
                         ingredients |-> [i \in 1 .. Len(ings) |-> ings[i].v],
                         steps |-> s,
                         nutritionalInfo |->
                             [k \in DOMAIN j.v.nutritionalInfo.v |->
                                 j.v.nutritionalInfo.v[k].v]]) :
               s \in StepsAdded(j.v.steps.v, Len(j.v.steps.v)) }

(***************************************************************************)
(* Meal (part_001), as a value: ingredients and recipe held as values.     *)
(***************************************************************************)
\* enum class Type and enum class Status: the first enumerators.
BREAKFAST == 0

PLANNED == 0

\* Meal::updateCost
UpdateCost(ings) == SumOf([i \in 1 .. Len(ings) |-> CalculateCost(ings[i])])

\* recipe_ of a Meal value: no recipe, or the recipe's value.
NoRecipe == [present |-> FALSE]

SomeRecipe(r) == [present |-> TRUE, v |-> r]

MealSerialize(m) ==
    LET members == [name |-> JStr(m.name),
                    type |-> JInt(m.type),
                    status |-> JInt(m.status),
                    estimatedCost |-> JNum(m.estimatedCost),
                    servings |-> JInt(m.servings),
                    ingredients |->
                        JArr([i \in 1 .. Len(m.ingredients) |->
                                 JStr(IngredientSerialize(m.ingredients[i]))])]
    IN  Dump(JObj(IF m.recipe.present
                  THEN [recipe |-> JStr(RecipeSerialize(m.recipe.v))] @@ members
                  ELSE members))

\* The Meal that Meal::deserialize holds once its loop of addIngredient calls is
\* done: every addIngredient ran updateCost, so a non-empty list replaces the
\* document's estimatedCost; servings_ is assigned as read.
MealRead(o, ings) ==
    [name |-> o.name.v,
     type |-> o.type.v,
     status |-> o.status.v,
     estimatedCost |-> IF Len(ings) = 0 THEN o.estimatedCost.v ELSE UpdateCost(ings),
     servings |-> o.servings.v,
     ingredients |-> ings,
     recipe |-> NoRecipe]

\* Meal::setRecipe(r) on a Meal value, r not null: the list becomes copies of the
\* recipe's ingredients; scaleServings(servings_) raises on servings_ <= 0 and
\* otherwise returns at once, its argument being the current count; then
\* updateCost.
MealWithRecipe(m, r) ==
    IF m.servings <= 0
    THEN Threw
    ELSE Returned([m EXCEPT !.recipe = SomeRecipe(r),
                            !.ingredients = r.ingredients,
                            !.estimatedCost = UpdateCost(r.ingredients)])

\* Every result Meal::deserialize may return for a document.
MealDeserialize(data) ==
    LET j == Parse(data)
        ings == [i \in 1 .. Len(j.v.ingredients.v) |->
                    IngredientDeserialize(Dump(j.v.ingredients.v[i]))]
        read == MealRead(j.v, [i \in 1 .. Len(ings) |-> ings[i].v])
    IN  IF j.t # "object" THEN { Threw }
        ELSE IF j.v.estimatedCost.t # "number" THEN { Threw }
        ELSE IF \E i \in 1 .. Len(ings) : ~ings[i].ok THEN { Threw }
        ELSE IF "recipe" \in DOMAIN j.v /\ j.v.recipe.t # "null"
             THEN { IF r.ok THEN MealWithRecipe(read, r.v) ELSE Threw :
                    r \in RecipeDeserialize(Dump(j.v.recipe)) }
        ELSE { Returned(read) }

(***************************************************************************)
(* The objects of the caller's program: the Ingredient objects it made     *)
(* (handles 1..MaxIngredients), one Recipe and one Meal.  The handles      *)
(* above MaxIngredients are the Ingredient objects a Meal or a             *)
(* deserialization made; an object no list points to any more is gone.     *)
(***************************************************************************)
CallerLive(h) == (DOMAIN h) \cap CallerHandles

\* count fresh handles above those of the caller and of the skip objects before.
OwnedHandles(skip, count) == [i \in 1 .. count |-> MaxIngredients + skip + i]

\* recipe_ of the Meal object: nullptr, the caller's Recipe, or the Recipe object
\* Meal::deserialize made.
NoOwnRecipe == [present |-> FALSE]

\* The heap with the objects nothing points to dropped.
Collect(h, m, own) ==
    [x \in CallerLive(h) \cup Range(m.ingredients)
           \cup (IF own.present THEN Range(own.v.ingredients) ELSE {}) |-> h[x]]

\* A Recipe object as a value.
RecipeValue(r, st, h) ==
    [id |-> r.id, name |-> r.name, description |-> r.description,
     difficulty |-> r.difficulty, servings |-> r.servings,
     ingredients |-> Deref(h, r.ingredients), steps |-> st,
     nutritionalInfo |-> r.nutritionalInfo]

\* A Meal object as a value.
MealValue(m, h, r, st, own) ==
    [name |-> m.name, type |-> m.type, status |-> m.status,
     estimatedCost |-> m.estimatedCost, servings |-> m.servings,
     ingredients |-> Deref(h, m.ingredients),
     recipe |-> IF m.recipe = "null" THEN NoRecipe
                ELSE IF m.recipe = "caller" THEN SomeRecipe(RecipeValue(r, st, h))
                ELSE SomeRecipe(RecipeValue(own.v, own.v.steps, h))]

CurrentMeal == MealValue(meal, heap, recipe, steps, ownRecipe)

CurrentRecipe == RecipeValue(recipe, steps, heap)

\* The record of a call: its name, whether it raised, and what it returned (for
\* the calls that return an object).
Called(op, threw, out) == [op |-> op, threw |-> threw, out |-> out]

(***************************************************************************)
(* Arguments the caller passes.                                            *)
(***************************************************************************)
\* The names the caller gives its ingredients, in the sequence it makes them.
IngredientNames == [h \in CallerHandles |-> IF h = 1 THEN "A" ELSE "B"]

\* The quantities it passes to Ingredient(name, quantity, Unit::GRAM) for the
\* ingredient it makes next: the first is made with 1, the second with 2, and a
\* call with a negative quantity may come at any time.
QuantityArgs(made) == { Dbl(0 - 1, 1), Dbl(made + 1, 1) }

\* The prices it passes to setUnitPrice.
PriceArgs == { Dbl(0 - 1, 1), Dbl(1, 10) }

ServingArgs == (0 - 1) .. MaxServings

\* A quantity within the bounds of the model (an infinity or a NaN is).
InBounds(q) == Abs(q.n) <= MaxQuantity /\ q.d <= MaxServings

(***************************************************************************)
(* Ingredient operations                                                   *)
(***************************************************************************)
\* Ingredient(name, quantity, unit): raises on a negative quantity.
IngredientCtor(quantity) ==
    /\ CallerLive(heap) # CallerHandles
    /\ IF Negative(quantity)
       THEN /\ heap' = heap
            /\ mealCall' = Called("Ingredient", TRUE, Threw)
       ELSE /\ \E id \in GenerateId(Cardinality(CallerLive(heap))) :
                 heap' = Put(heap, Cardinality(CallerLive(heap)) + 1,
                             NewIngredient(id,
                                 IngredientNames[Cardinality(CallerLive(heap)) + 1],
                                 quantity, GRAM))
            /\ mealCall' = Called("Ingredient", FALSE, Threw)
    /\ UNCHANGED <<recipe, meal, ownRecipe, otherMeal, stepVars, storageVars>>

\* Ingredient::setUnitPrice on the caller's object h.
IngredientSetUnitPrice(h, price) ==
    /\ h \in CallerLive(heap)
    /\ IF Negative(price)
       THEN /\ heap' = heap
            /\ mealCall' = Called("Ingredient::setUnitPrice", TRUE, Threw)
       ELSE /\ heap' = [heap EXCEPT ![h].unitPrice = price]
            /\ mealCall' = Called("Ingredient::setUnitPrice", FALSE, Threw)
    /\ UNCHANGED <<recipe, meal, ownRecipe, otherMeal, stepVars, storageVars>>

(***************************************************************************)
(* Recipe operations on the caller's Recipe                                *)
(***************************************************************************)
\* Recipe::setServings
RecipeSetServings(n) ==
    /\ IF n <= 0
       THEN /\ recipe' = recipe
            /\ mealCall' = Called("Recipe::setServings", TRUE, Threw)
       ELSE /\ recipe' = [recipe EXCEPT !.servings = n]
            /\ mealCall' = Called("Recipe::setServings", FALSE, Threw)
    /\ UNCHANGED <<heap, meal, ownRecipe, otherMeal, stepVars, storageVars>>

\* Recipe::addIngredient with the caller's object h (stored by reference).
RecipeAddIngredient(h) ==
    /\ h \in CallerLive(heap)
    /\ Len(recipe.ingredients) < MaxListLen
    /\ recipe' = [recipe EXCEPT
                    !.ingredients = Append(@, h),
                    !.nutritionalInfo =
                        RecalculateNutritionalInfo(
                            Deref(heap, Append(recipe.ingredients, h)))]
    /\ mealCall' = Called("Recipe::addIngredient", FALSE, Threw)
    /\ UNCHANGED <<heap, meal, ownRecipe, otherMeal, stepVars, storageVars>>

(***************************************************************************)
(* Meal operations on the caller's Meal                                    *)
(***************************************************************************)
\* Meal::updateCost over the objects the list points to.
CostOf(h, list) == UpdateCost(Deref(h, list))

\* Meal::addIngredient with the caller's object h (stored by reference).
MealAddIngredient(h) ==
    /\ h \in CallerLive(heap)
    /\ Len(meal.ingredients) < MaxListLen
    /\ meal' = [meal EXCEPT
                  !.ingredients = Append(@, h),
                  !.estimatedCost = CostOf(heap, Append(meal.ingredients, h))]
    /\ mealCall' = Called("Meal::addIngredient", FALSE, Threw)
    /\ UNCHANGED <<heap, recipe, ownRecipe, otherMeal, stepVars, storageVars>>

\* std::find_if over ingredients_ by id: the first index, 0 for end().
FindId(h, list, id) ==
    IF \E i \in 1 .. Len(list) : h[list[i]].id = id
    THEN CHOOSE i \in 1 .. Len(list) :
             /\ h[list[i]].id = id
             /\ \A j \in 1 .. (i - 1) : h[list[j]].id # id
    ELSE 0

\* Meal::removeIngredient
MealRemoveIngredient(id) ==
    /\ LET at == FindId(heap, meal.ingredients, id)
           left == Erase(meal.ingredients, at)
       IN  IF at = 0
           THEN UNCHANGED <<meal, heap>>
           ELSE /\ meal' = [meal EXCEPT !.ingredients = left,
                                        !.estimatedCost = CostOf(heap, left)]
                /\ heap' = Collect(heap, meal', ownRecipe)
    /\ mealCall' = Called("Meal::removeIngredient", FALSE, Threw)
    /\ UNCHANGED <<recipe, ownRecipe, otherMeal, stepVars, storageVars>>

\* The loop of lines 119-121: scale() on the object behind every entry of the list
\* in turn (an object the list holds twice is scaled twice).
RECURSIVE ScaleEach(_, _, _)
ScaleEach(h, list, factor) ==
    IF Len(list) = 0
    THEN h
    ELSE ScaleEach([h EXCEPT ![Head(list)] = Scaled(@, factor)], Tail(list), factor)

\* The factor taken from the new serving count alone.
ScaleFactorFromOne(m, newServings) == IntRatio(newServings, 1)

\* static_cast<double>(newServings) / servings_
ScaleFactor(m, newServings) == IntRatio(newServings, m.servings)

\* Whether Meal::scaleServings raises: on its own check, or in the first scale()
\* call, which raises on a factor <= 0 (before any quantity has changed).
ScaleServingsThrows(m, newServings) ==
    \/ newServings <= 0
    \/ /\ m.servings # newServings
       /\ Len(m.ingredients) > 0
       /\ NotPositive(ScaleFactor(m, newServings))

\* The loop scaling snapshots the list would hold: the caller's objects untouched.
ScaleServingsHeapOfSnapshots(h, m, newServings) == h

\* The heap Meal::scaleServings leaves when it returns.
ScaleServingsHeap(h, m, newServings) ==
    IF m.servings = newServings
    THEN h
    ELSE ScaleEach(h, m.ingredients, ScaleFactor(m, newServings))

\* The Meal Meal::scaleServings leaves when it returns, h being the heap it leaves.
ScaleServingsMeal(h, m, newServings) ==
    IF m.servings = newServings
    THEN m
    ELSE [m EXCEPT !.servings = newServings,
                   !.estimatedCost = CostOf(h, m.ingredients)]

AllInBounds(h) == \A x \in DOMAIN h : InBounds(h[x].quantity)

\* Meal::scaleServings
MealScaleServings(n) ==
    /\ IF ScaleServingsThrows(meal, n)
       THEN /\ UNCHANGED <<heap, meal>>
            /\ mealCall' = Called("Meal::scaleServings", TRUE, Threw)
       ELSE /\ heap' = ScaleServingsHeap(heap, meal, n)
            /\ AllInBounds(heap')
            /\ meal' = ScaleServingsMeal(heap', meal, n)
            /\ mealCall' = Called("Meal::scaleServings", FALSE, Threw)
    /\ UNCHANGED <<recipe, ownRecipe, otherMeal, stepVars, storageVars>>

\* A slip in the check: a count of 0 is let through.
SetServingsThrowsBelowZero(n) == n < 0

\* The check of lines 81-83.
SetServingsThrows(n) == n <= 0

\* Meal::setServings: servings_ is assigned before scaleServings is called.
MealSetServings(n) ==
    /\ IF SetServingsThrows(n)
       THEN /\ UNCHANGED <<heap, meal>>
            /\ mealCall' = Called("Meal::setServings", TRUE, Threw)
       ELSE LET assigned == [meal EXCEPT !.servings = n]
            IN  /\ heap' = ScaleServingsHeap(heap, assigned, n)
                /\ meal' = ScaleServingsMeal(heap', assigned, n)
                /\ mealCall' = Called("Meal::setServings", FALSE, Threw)
    /\ UNCHANGED <<recipe, ownRecipe, otherMeal, stepVars, storageVars>>

\* Meal::updateCost
MealUpdateCost ==
    /\ meal' = [meal EXCEPT !.estimatedCost = CostOf(heap, meal.ingredients)]
    /\ mealCall' = Called("Meal::updateCost", FALSE, Threw)
    /\ UNCHANGED <<heap, recipe, ownRecipe, otherMeal, stepVars, storageVars>>

\* The meal's list holding the recipe's own objects.
SharedHandles(list) == list

\* std::make_shared<Ingredient>(*ingredient) for each ingredient of the recipe:
\* the handles of the new objects.
CopyHandles(list) == OwnedHandles(0, Len(list))

\* The heap after lines 71-74: the old list cleared, and a copy of every
\* ingredient of the recipe (the copy constructor copies every field, id_ too).
CopiesHeap(h, list) ==
    LET kept == [x \in CallerLive(h) |-> h[x]]
        to == CopyHandles(list)
    IN  [x \in (DOMAIN kept) \cup Range(to) |->
            IF x \in DOMAIN kept THEN kept[x]
            ELSE h[list[CHOOSE i \in 1 .. Len(list) : to[i] = x]]]

\* Meal::setRecipe(nullptr)
MealSetRecipeNull ==
    /\ meal' = [meal EXCEPT !.recipe = "null"]
    /\ ownRecipe' = NoOwnRecipe
    /\ heap' = Collect(heap, meal', ownRecipe')
    /\ mealCall' = Called("Meal::setRecipe", FALSE, Threw)
    /\ UNCHANGED <<recipe, otherMeal, stepVars, storageVars>>

\* Meal::setRecipe with the caller's Recipe: recipe_ and the list are replaced
\* before scaleServings(servings_) is called, which raises on servings_ <= 0 and
\* leaves estimatedCost_ as it was.
MealSetRecipe ==
    /\ ownRecipe' = NoOwnRecipe
    /\ heap' = CopiesHeap(heap, recipe.ingredients)
    /\ LET copied == [meal EXCEPT
                        !.recipe = "caller",
                        !.ingredients = CopyHandles(recipe.ingredients)]
       IN  IF ScaleServingsThrows(copied, copied.servings)
           THEN /\ meal' = copied
                /\ mealCall' = Called("Meal::setRecipe", TRUE, Threw)
           ELSE /\ meal' = [copied EXCEPT
                              !.estimatedCost = CostOf(heap', copied.ingredients)]
                /\ mealCall' = Called("Meal::setRecipe", FALSE, Threw)
    /\ UNCHANGED <<recipe, otherMeal, stepVars, storageVars>>

(***************************************************************************)
(* Serialisation calls                                                     *)
(***************************************************************************)
\* recipe.serialize() handed to Recipe::deserialize; the caller keeps the result
\* beside its recipe.
RecipeRoundTrip ==
    /\ \E r \in RecipeDeserialize(RecipeSerialize(CurrentRecipe)) :
           mealCall' = Called("Recipe::roundTrip", ~r.ok, r)
    /\ UNCHANGED <<heap, recipe, meal, ownRecipe, otherMeal, stepVars, storageVars>>

\* meal.serialize() handed to Meal::deserialize; the caller keeps the result
\* beside its meal.
MealRoundTrip ==
    /\ \E r \in MealDeserialize(MealSerialize(CurrentMeal)) :
           mealCall' = Called("Meal::roundTrip", ~r.ok, r)
    /\ UNCHANGED <<heap, recipe, meal, ownRecipe, otherMeal, stepVars, storageVars>>

\* Documents that did not come from serialize(): an ingredient as an object,
\* a recipe as an object, and meals around them with any serving count.
IngredientDoc ==
    JObj([id |-> JStr("ing_1"), name |-> JStr("A"), quantity |-> JNum(Dbl(1, 1)),
          unit |-> JInt(GRAM), unitPrice |-> JNum(Dbl(1, 10)),
          expiryDate |-> JInt(0), nutritionalInfo |-> JMap(EmptyMap)])

RecipeDoc ==
    JObj([id |-> JStr("rec_2"), name |-> JStr("Stored Recipe"),
          description |-> JStr(""), difficulty |-> JInt(EASY), servings |-> JInt(1),
          ingredients |-> JArr(<<IngredientDoc>>),
          steps |-> JArr(<<JObj([order |-> JInt(1), description |-> JStr("mix"),
                                 duration |-> JInt(5)])>>),
          nutritionalInfo |-> JMap(EmptyMap)])

MealDoc(servings, ingredients) ==
    [name |-> JStr("Stored Meal"), type |-> JInt(BREAKFAST),
     status |-> JInt(PLANNED), estimatedCost |-> JNum(Zero),
     servings |-> JInt(servings), ingredients |-> JArr(ingredients)]

\* The serving counts of the documents: a negative one, zero and a positive one.
DocServings == { 0 - 1, 0, 2 }

\* Stored meals without a recipe, and stored meals with one.
MealDocs ==
    { Dump(JObj(MealDoc(s, i))) : s \in DocServings, i \in { <<>>, <<IngredientDoc>> } }

MealWithRecipeDocs ==
    { Dump(JObj([recipe |-> RecipeDoc] @@ MealDoc(s, <<>>))) : s \in DocServings }

\* meal = Meal::deserialize(data): the objects of the returned Meal take fresh
\* handles; a call that raises leaves the caller's meal as it was.
MealAssignDeserialized(data) ==
    /\ \E r \in MealDeserialize(data) :
        IF ~r.ok
        THEN /\ UNCHANGED <<heap, meal, ownRecipe>>
             /\ mealCall' = Called("Meal::deserialize", TRUE, r)
        ELSE LET mine == OwnedHandles(0, Len(r.v.ingredients))
                 its == IF r.v.recipe.present
                        THEN OwnedHandles(Len(mine), Len(r.v.recipe.v.ingredients))
                        ELSE <<>>
             IN  /\ heap' =
                        [x \in CallerLive(heap) \cup Range(mine) \cup Range(its) |->
                            IF x \in CallerLive(heap) THEN heap[x]
                            ELSE IF x \in Range(mine)
                            THEN r.v.ingredients[CHOOSE i \in 1 .. Len(mine) : mine[i] = x]
                            ELSE r.v.recipe.v.ingredients[
                                     CHOOSE i \in 1 .. Len(its) : its[i] = x]]
                 /\ meal' = [name |-> r.v.name, type |-> r.v.type,
                             status |-> r.v.status,
                             estimatedCost |-> r.v.estimatedCost,
                             servings |-> r.v.servings, ingredients |-> mine,
                             recipe |-> IF r.v.recipe.present THEN "own" ELSE "null"]
                 /\ ownRecipe' =
                        IF r.v.recipe.present
                        THEN SomeRecipe([r.v.recipe.v EXCEPT !.ingredients = its])
                        ELSE NoOwnRecipe
                 /\ mealCall' = Called("Meal::deserialize", FALSE, r)
    /\ UNCHANGED <<recipe, otherMeal, stepVars, storageVars>>

(***************************************************************************)
(* The caller's program: a Recipe and a Meal, freshly constructed.         *)
(***************************************************************************)
MealInit ==
    /\ heap = [x \in {} |-> x]
    /\ recipe = [id |-> "rec_1", name |-> "Test Recipe", description |-> "",
                 difficulty |-> EASY, servings |-> 1, ingredients |-> <<>>,
                 nutritionalInfo |-> EmptyMap]
    /\ meal = [name |-> "Test Meal", type |-> BREAKFAST, status |-> PLANNED,
               estimatedCost |-> Zero, servings |-> 1, ingredients |-> <<>>,
               recipe |-> "null"]
    /\ otherMeal = [name |-> "Other Meal", type |-> BREAKFAST, status |-> PLANNED,
                    estimatedCost |-> Zero, servings |-> 1, ingredients |-> <<>>,
                    recipe |-> "null"]
    /\ ownRecipe = NoOwnRecipe
    /\ mealCall = Called("Meal", FALSE, Threw)


(***************************************************************************)
(* Further Ingredient operations on the caller's objects, and              *)
(* Recipe::removeIngredient                                                *)
(***************************************************************************)
\* The names the caller passes to Ingredient(name) and setName.
NameArgs == { "", "C" }

\* The quantities it passes to setQuantity.
SetQuantityArgs == { Dbl(0 - 1, 1), Zero, Dbl(2, 1), NaN }

\* The factors it passes to scale.
FactorArgs == { Dbl(0 - 1, 1), Zero, Dbl(2, 1), Dbl(1, 2) }

\* The nutrient values it passes to addNutritionalInfo("calories", value).
NutrientArgs == { Dbl(0 - 1, 1), Dbl(5, 1) }

\* The expiry date it passes to setExpiryDate, in clock ticks: one between two
\* whole seconds (a new ingredient has the clock's epoch, a whole second).
ExpiryArgs == { TicksPerSecond + TicksPerSecond \div 2 }

\* Ingredient(name): quantity 0, unit GRAM, unit price 0; the name is not checked.
IngredientCtorName(name) ==
    /\ CallerLive(heap) # CallerHandles
    /\ \E id \in GenerateId(Cardinality(CallerLive(heap))) :
           heap' = Put(heap, Cardinality(CallerLive(heap)) + 1,
                       NewIngredient(id, name, Zero, GRAM))
    /\ mealCall' = Called("Ingredient", FALSE, Threw)
    /\ UNCHANGED <<recipe, meal, ownRecipe, otherMeal, stepVars, storageVars>>

\* The check of lines 50-52.
SetNameThrows(name) == name = ""

\* Ingredient::setName on the caller's object h.
IngredientSetName(h, name) ==
    /\ h \in CallerLive(heap)
    /\ IF SetNameThrows(name)
       THEN /\ heap' = heap
            /\ mealCall' = Called("Ingredient::setName", TRUE, Threw)
       ELSE /\ heap' = [heap EXCEPT ![h].name = name]
            /\ mealCall' = Called("Ingredient::setName", FALSE, Threw)
    /\ UNCHANGED <<recipe, meal, ownRecipe, otherMeal, stepVars, storageVars>>

\* Ingredient::setQuantity on the caller's object h.
IngredientSetQuantity(h, quantity) ==
    /\ h \in CallerLive(heap)
    /\ IF Negative(quantity)
       THEN /\ heap' = heap
            /\ mealCall' = Called("Ingredient::setQuantity", TRUE, Threw)
       ELSE /\ heap' = [heap EXCEPT ![h].quantity = quantity]
            /\ mealCall' = Called("Ingredient::setQuantity", FALSE, Threw)
    /\ UNCHANGED <<recipe, meal, ownRecipe, otherMeal, stepVars, storageVars>>

\* Ingredient::setExpiryDate on the caller's object h.
IngredientSetExpiryDate(h, date) ==
    /\ h \in CallerLive(heap)
    /\ heap' = [heap EXCEPT ![h].expiryDate = date]
    /\ mealCall' = Called("Ingredient::setExpiryDate", FALSE, Threw)
    /\ UNCHANGED <<recipe, meal, ownRecipe, otherMeal, stepVars, storageVars>>

\* Ingredient::scale on the caller's object h.
IngredientScale(h, factor) ==
    /\ h \in CallerLive(heap)
    /\ IF NotPositive(factor)
       THEN /\ heap' = heap
            /\ mealCall' = Called("Ingredient::scale", TRUE, Threw)
       ELSE /\ heap' = [heap EXCEPT ![h] = Scaled(@, factor)]
            /\ InBounds(heap'[h].quantity)
            /\ mealCall' = Called("Ingredient::scale", FALSE, Threw)
    /\ UNCHANGED <<recipe, meal, ownRecipe, otherMeal, stepVars, storageVars>>

\* nutritionalInfo_[nutrient] = value
WithNutrient(info, nutrient, value) ==
    [k \in (DOMAIN info) \cup { nutrient } |-> IF k = nutrient THEN value ELSE info[k]]

\* Ingredient::addNutritionalInfo on the caller's object h.
IngredientAddNutritionalInfo(h, nutrient, value) ==
    /\ h \in CallerLive(heap)
    /\ IF Negative(value)
       THEN /\ heap' = heap
            /\ mealCall' = Called("Ingredient::addNutritionalInfo", TRUE, Threw)
       ELSE /\ heap' = [heap EXCEPT
                          ![h].nutritionalInfo = WithNutrient(@, nutrient, value)]
            /\ mealCall' = Called("Ingredient::addNutritionalInfo", FALSE, Threw)
    /\ UNCHANGED <<recipe, meal, ownRecipe, otherMeal, stepVars, storageVars>>

\* heap[h].serialize() handed to Ingredient::deserialize; the caller keeps the
\* result beside its ingredient.
IngredientRoundTrip(h) ==
    /\ h \in CallerLive(heap)
    /\ LET r == IngredientDeserialize(IngredientSerialize(heap[h]))
       IN  mealCall' = Called("Ingredient::roundTrip", ~r.ok, r)
    /\ UNCHANGED <<heap, recipe, meal, ownRecipe, otherMeal, stepVars, storageVars>>

\* Recipe::removeIngredient: the first ingredient with the id is erased and the
\* nutrient totals recomputed; an id no ingredient has is ignored.
RecipeRemoveIngredient(id) ==
    /\ LET at == FindId(heap, recipe.ingredients, id)
           left == Erase(recipe.ingredients, at)
       IN  IF at = 0
           THEN recipe' = recipe
           ELSE recipe' = [recipe EXCEPT
                             !.ingredients = left,
                             !.nutritionalInfo =
                                 RecalculateNutritionalInfo(Deref(heap, left))]
    /\ mealCall' = Called("Recipe::removeIngredient", FALSE, Threw)
    /\ UNCHANGED <<heap, meal, ownRecipe, otherMeal, stepVars, storageVars>>

(***************************************************************************)
(* Meal::setName, and Meal::addIngredient with a null pointer              *)
(***************************************************************************)
\* Meal::setName
MealSetName(name) ==
    /\ IF name = ""
       THEN /\ meal' = meal
            /\ mealCall' = Called("Meal::setName", TRUE, Threw)
       ELSE /\ meal' = [meal EXCEPT !.name = name]
            /\ mealCall' = Called("Meal::setName", FALSE, Threw)
    /\ UNCHANGED <<heap, recipe, ownRecipe, otherMeal, stepVars, storageVars>>

\* Meal::addIngredient(nullptr): raises at lines 90-92.
MealAddIngredientNull ==
    /\ mealCall' = Called("Meal::addIngredient(nullptr)", TRUE, Threw)
    /\ UNCHANGED <<heap, recipe, meal, ownRecipe, otherMeal, stepVars, storageVars>>

(***************************************************************************)
(* Meal::calculateNutritionalValue, Meal::setStatus and Meal::isComplete    *)
(***************************************************************************)
\* The nutrients the caller records for an ingredient.
NutrientNames == { "calories", "protein" }

\* A slip in the loop: every nutrient of an ingredient is added, not only
\* "calories".
CaloriesOfEveryNutrient(ings) ==
    Plus(SumOf(NutrientValues(ings, "calories")), SumOf(NutrientValues(ings, "protein")))

\* The loop of lines 140-146: totalCalories += the "calories" entry of every
\* ingredient that has one.
CaloriesOf(ings) ==
    SumOf(NutrientValues(ings, "calories"))

\* Meal::calculateNutritionalValue on the caller's Meal.
MealCalculateNutritionalValue ==
    /\ mealCall' = Called("Meal::calculateNutritionalValue", FALSE,
                          Returned(CaloriesOf(Deref(heap, meal.ingredients))))
    /\ UNCHANGED <<heap, recipe, meal, ownRecipe, otherMeal, stepVars, storageVars>>

\* enum class Status: PLANNED, SHOPPING, PREPARING, READY, CONSUMED.
CONSUMED == 4

Statuses == PLANNED .. CONSUMED

\* Meal::setStatus
MealSetStatus(status) ==
    /\ meal' = [meal EXCEPT !.status = status]
    /\ mealCall' = Called("Meal::setStatus", FALSE, Threw)
    /\ UNCHANGED <<heap, recipe, ownRecipe, otherMeal, stepVars, storageVars>>

\* A slip in the test: the status is not looked at.
IsCompleteWithAnyStatus(m) == Len(m.ingredients) # 0

\* !ingredients_.empty() && status_ != Status::PLANNED
IsComplete(m) == Len(m.ingredients) # 0 /\ m.status # PLANNED

\* Meal::isComplete on the caller's Meal.
MealIsComplete ==
    /\ mealCall' = Called("Meal::isComplete", FALSE, Returned(IsComplete(meal)))
    /\ UNCHANGED <<heap, recipe, meal, ownRecipe, otherMeal, stepVars, storageVars>>

(***************************************************************************)
(* Storage (storage.hpp): the process-wide repository.  Its three maps are *)
(* declared in the header; its operations are defined nowhere in the       *)
(* sources, so they follow the specification's section 4.4: per entity     *)
(* kind get(id), add(entity), update(entity) and remove(id), with          *)
(* validation before add and update, removal of an id that is not stored   *)
(* ignored, and clear() emptying the three maps.                           *)
(***************************************************************************)
\* The entity kinds: meals_, recipes_ and ingredients_.
Kinds == { "meal", "recipe", "ingredient" }

\* The ids of the entities handed to the repository.
EntityIds == { "id_1", "id_2" }

\* A shared_ptr to an entity: nullptr, or the entity's id and fields (the name
\* stands for them; an empty name violates the field invariants).
NullEntity == [null |-> TRUE, id |-> "", name |-> ""]

Entity(id, name) == [null |-> FALSE, id |-> id, name |-> name]

EntityArgs ==
    { NullEntity } \cup { Entity(id, name) : id \in EntityIds, name \in { "", "A", "B" } }

\* validateMeal / validateRecipe / validateIngredient: who fails is raised
\* InvalidArgument and not inserted.
ValidEntity(e) == ~e.null /\ e.name # ""

\* The entries of one map, each entry the entity stored under its own id.
EmptyStore == [k \in Kinds |-> {}]

\* A slip in add: the entry already stored under the id is left beside the new one.
StoredBeside(entries, e) == entries \cup { e }

\* The map after the entity is stored under its id, an entry already under that
\* id replaced.
Stored(entries, e) == { x \in entries : x.id # e.id } \cup { e }

\* The map after remove(id).
Removed(entries, id) == { x \in entries : x.id # id }

\* get(id): the entity stored under id, or nullptr.
Get(entries, id) ==
    IF \E x \in entries : x.id = id
    THEN CHOOSE x \in entries : x.id = id
    ELSE NullEntity

StorageCalled(op, kind, e, pre, threw) ==
    [op |-> op, kind |-> kind, e |-> e, pre |-> pre, threw |-> threw]

\* add(entity) of one kind
StorageAdd(kind, e) ==
    /\ IF ValidEntity(e)
       THEN /\ storage' = [storage EXCEPT ![kind] = Stored(@, e)]
            /\ storageCall' = StorageCalled("add", kind, e, storage, FALSE)
       ELSE /\ storage' = storage
            /\ storageCall' = StorageCalled("add", kind, e, storage, TRUE)
    /\ UNCHANGED <<stepVars, mealVars, lockVars>>

\* update(entity) of one kind: re-validates and replaces the stored entry.
StorageUpdate(kind, e) ==
    /\ IF ValidEntity(e)
       THEN /\ storage' = [storage EXCEPT ![kind] = Stored(@, e)]
            /\ storageCall' = StorageCalled("update", kind, e, storage, FALSE)
       ELSE /\ storage' = storage
            /\ storageCall' = StorageCalled("update", kind, e, storage, TRUE)
    /\ UNCHANGED <<stepVars, mealVars, lockVars>>

\* remove(id) of one kind: an id that is not stored is ignored.
StorageRemove(kind, id) ==
    /\ storage' = [storage EXCEPT ![kind] = Removed(@, id)]
    /\ storageCall' = StorageCalled("remove", kind, Entity(id, ""), storage, FALSE)
    /\ UNCHANGED <<stepVars, mealVars, lockVars>>

\* clear()
StorageClear ==
    /\ storage' = EmptyStore
    /\ storageCall' = StorageCalled("clear", "meal", NullEntity, storage, FALSE)
    /\ UNCHANGED <<stepVars, mealVars, lockVars>>

(***************************************************************************)
(* Storage::mutex_ (storage.hpp line 62).  The header declares one mutex   *)
(* beside the three maps; the operations that take it are defined nowhere  *)
(* in the sources, so they follow the specification's section 5: every     *)
(* public operation acquires the lock when it starts and holds it until    *)
(* it returns, file I/O included.  An operation over the three maps        *)
(* (clear, loadFromFile, saveToFile) handles them one map at a time.       *)
(***************************************************************************)
\* The collaborators' threads.
Threads == { 1, 2 }

NoThread == 0

\* The order in which an operation over the three maps goes through them.
KindOrder == <<"meal", "recipe", "ingredient">>

\* The one entity of each kind the threads add and remove.
LockEntity == Entity("id_1", "A")

\* What a file given to loadFromFile holds.
FileArgs == { EmptyStore, [k \in Kinds |-> { LockEntity }] }

\* The operations a thread calls, with their arguments.
LockOps ==
    { [op |-> op, kind |-> kind, file |-> EmptyStore] :
          op \in { "add", "remove", "get" }, kind \in Kinds }
        \cup { [op |-> "clear", kind |-> "meal", file |-> EmptyStore],
               [op |-> "saveToFile", kind |-> "meal", file |-> EmptyStore] }
        \cup { [op |-> "loadFromFile", kind |-> "meal", file |-> f] : f \in FileArgs }

\* The operations that only read the maps.
Readers == { "get", "saveToFile" }

\* A thread outside the repository.
Idle == [op |-> "idle", kind |-> "meal", file |-> EmptyStore, at |-> "out",
         maps |-> 0, pre |-> EmptyStore, seen |-> EmptyStore]

\* Whether the thread is inside an operation: it holds the lock and has not
\* returned.
Inside(t) == running[t].at = "in"

\* A lock that lets every caller in.
MutexAlwaysFree(m) == TRUE

\* std::mutex: lock() returns only while no thread holds it.
MutexFree(m) == m = NoThread

\* A thread calls an operation: it waits at the lock.
StorageCall(t, call) ==
    /\ running[t].op = "idle"
    /\ running' = [running EXCEPT ![t] =
                      [Idle EXCEPT !.op = call.op, !.kind = call.kind,
                                   !.file = call.file, !.at = "lock"]]
    /\ UNCHANGED <<storage, storageCall, mutex, stepVars, mealVars>>

\* std::lock_guard<std::mutex> lock(mutex_) at the start of the operation.
StorageLock(t) ==
    /\ running[t].at = "lock"
    /\ MutexFree(mutex)
    /\ mutex' = t
    /\ running' = [running EXCEPT ![t].at = "in", ![t].pre = storage]
    /\ UNCHANGED <<storage, storageCall, stepVars, mealVars>>

\* add, remove or get of one kind, inside the lock.
StorageOneMap(t) ==
    /\ Inside(t)
    /\ running[t].op \in { "add", "remove", "get" }
    /\ running[t].maps = 0
    /\ LET kind == running[t].kind
       IN  /\ storage' =
                  CASE running[t].op = "add" ->
                           [storage EXCEPT ![kind] = Stored(@, LockEntity)]
                    [] running[t].op = "remove" ->
                           [storage EXCEPT ![kind] = Removed(@, LockEntity.id)]
                    [] OTHER -> storage
           /\ running' = [running EXCEPT
                            ![t].maps = Len(KindOrder),
                            ![t].seen = [@ EXCEPT ![kind] = storage[kind]]]
    /\ UNCHANGED <<storageCall, mutex, stepVars, mealVars>>

\* clear, loadFromFile or saveToFile, inside the lock: the next of the three maps
\* is emptied, filled from the file, or written to the file.
StorageNextMap(t) ==
    /\ Inside(t)
    /\ running[t].op \in { "clear", "loadFromFile", "saveToFile" }
    /\ running[t].maps < Len(KindOrder)
    /\ LET kind == KindOrder[running[t].maps + 1]
       IN  /\ storage' =
                  CASE running[t].op = "clear" -> [storage EXCEPT ![kind] = {}]
                    [] running[t].op = "loadFromFile" ->
                           [storage EXCEPT ![kind] = running[t].file[kind]]
                    [] OTHER -> storage
           /\ running' = [running EXCEPT
                            ![t].maps = @ + 1,
                            ![t].seen = [@ EXCEPT ![kind] = storage[kind]]]
    /\ UNCHANGED <<storageCall, mutex, stepVars, mealVars>>

\* The operation returns: the lock_guard goes out of scope.
StorageUnlock(t) ==
    /\ Inside(t)
    /\ running[t].maps = Len(KindOrder)
    /\ mutex' = NoThread
    /\ running' = [running EXCEPT ![t] = Idle]
    /\ storageCall' = StorageCalled(running[t].op, running[t].kind, NullEntity,
                                    running[t].pre, FALSE)
    /\ UNCHANGED <<storage, stepVars, mealVars>>

\* Threads of the collaborators call the repository concurrently.
LockNext ==
    \/ \E t \in Threads, call \in LockOps : StorageCall(t, call)
    \/ \E t \in Threads : StorageLock(t)
    \/ \E t \in Threads : StorageOneMap(t)
    \/ \E t \in Threads : StorageNextMap(t)
    \/ \E t \in Threads : StorageUnlock(t)

StorageInit ==
    /\ storage = EmptyStore
    /\ mutex = NoThread
    /\ running = [t \in Threads |-> Idle]
    /\ storageCall = StorageCalled("getInstance", "meal", NullEntity, EmptyStore, FALSE)

\* Collaborators call the repository.
StorageNext ==
    \/ \E kind \in Kinds, e \in EntityArgs : StorageAdd(kind, e)
    \/ \E kind \in Kinds, e \in EntityArgs : StorageUpdate(kind, e)
    \/ \E kind \in Kinds, id \in EntityIds : StorageRemove(kind, id)
    \/ StorageClear

(***************************************************************************)
(* A second Meal of the caller, holding the caller's Ingredient objects    *)
(***************************************************************************)
\* Meal::addIngredient on the second meal: the shared_ptr itself is pushed.
OtherMealAddIngredient(h) ==
    /\ h \in CallerLive(heap)
    /\ Len(otherMeal.ingredients) < MaxListLen
    /\ otherMeal' = [otherMeal EXCEPT
                       !.ingredients = Append(@, h),
                       !.estimatedCost = CostOf(heap, Append(otherMeal.ingredients, h))]
    /\ mealCall' = Called("Meal::addIngredient", FALSE, Threw)
    /\ UNCHANGED <<heap, recipe, meal, ownRecipe, stepVars, storageVars>>

\* Meal::updateCost on the second meal.
OtherMealUpdateCost ==
    /\ otherMeal' = [otherMeal EXCEPT
                       !.estimatedCost = CostOf(heap, otherMeal.ingredients)]
    /\ mealCall' = Called("Meal::updateCost", FALSE, Threw)
    /\ UNCHANGED <<heap, recipe, meal, ownRecipe, stepVars, storageVars>>
\* The caller works with ingredients and a meal.
MealNext ==
    \/ \E q \in QuantityArgs(Cardinality(CallerLive(heap))) : IngredientCtor(q)
    \/ \E h \in CallerHandles, p \in PriceArgs : IngredientSetUnitPrice(h, p)
    \/ \E h \in CallerHandles : MealAddIngredient(h)
    \/ \E id \in IdSpace : MealRemoveIngredient(id)
    \/ \E n \in ServingArgs : MealScaleServings(n)
    \/ \E n \in ServingArgs : MealSetServings(n)
    \/ MealUpdateCost
    \/ MealRoundTrip
    \/ \E d \in MealDocs : MealAssignDeserialized(d)
    \/ \E name \in NameArgs : MealSetName(name)
    \/ MealAddIngredientNull

\* The caller works with ingredients, a recipe, and a meal planned from a recipe.
MealRecipeNext ==
    \/ \E q \in QuantityArgs(Cardinality(CallerLive(heap))) : IngredientCtor(q)
    \/ \E h \in CallerHandles, p \in PriceArgs : IngredientSetUnitPrice(h, p)
    \/ \E n \in ServingArgs : RecipeSetServings(n)
    \/ \E h \in CallerHandles : RecipeAddIngredient(h)
    \/ \E n \in ServingArgs : MealScaleServings(n)
    \/ \E n \in ServingArgs : MealSetServings(n)
    \/ MealSetRecipeNull
    \/ MealSetRecipe
    \/ RecipeRoundTrip
    \/ MealRoundTrip
    \/ \E d \in MealWithRecipeDocs : MealAssignDeserialized(d)


\* The caller plans a meal from a recipe, then works on the recipe and its
\* ingredients on one side and on the meal on the other.
SnapshotNext ==
    \/ \E q \in QuantityArgs(Cardinality(CallerLive(heap))) : IngredientCtor(q)
    \/ \E h \in CallerHandles, p \in PriceArgs : IngredientSetUnitPrice(h, p)
    \/ \E f \in FactorArgs : IngredientScale(1, f)
    \/ \E h \in CallerHandles : RecipeAddIngredient(h)
    \/ \E id \in IdSpace : RecipeRemoveIngredient(id)
    \/ MealSetRecipe
    \/ \E n \in ServingArgs : MealScaleServings(n)
    \/ \E id \in IdSpace : MealRemoveIngredient(id)

\* The caller works with ingredients alone.
IngredientNext ==
    \/ \E q \in QuantityArgs(Cardinality(CallerLive(heap))) : IngredientCtor(q)
    \/ \E name \in NameArgs : IngredientCtorName(name)
    \/ \E h \in CallerHandles, name \in NameArgs : IngredientSetName(h, name)
    \/ \E h \in CallerHandles, q \in SetQuantityArgs : IngredientSetQuantity(h, q)
    \/ \E h \in CallerHandles, p \in PriceArgs : IngredientSetUnitPrice(h, p)
    \/ \E h \in CallerHandles, f \in FactorArgs : IngredientScale(h, f)
    \/ \E h \in CallerHandles, v \in NutrientArgs :
           IngredientAddNutritionalInfo(h, "calories", v)
    \/ \E h \in CallerHandles, d \in ExpiryArgs : IngredientSetExpiryDate(h, d)
    \/ \E h \in CallerHandles : IngredientRoundTrip(h)

\* The most steps held while removals of steps and of ingredients are tried
\* side by side.
MaxFewSteps == 2

\* The caller adds and removes steps of the recipe and ingredients of the recipe
\* and of the meal, by orders and ids that are held and by ones that are not.
RemovalNext ==
    \/ \E step \in StepArgs : Len(steps) < MaxFewSteps /\ AddStep(step)
    \/ \E o \in OrderArgs : RemoveStep(o)
    \/ \E q \in QuantityArgs(Cardinality(CallerLive(heap))) : IngredientCtor(q)
    \/ \E p \in PriceArgs : IngredientSetUnitPrice(1, p)
    \/ \E h \in CallerHandles : RecipeAddIngredient(h)
    \/ \E id \in IdSpace : RecipeRemoveIngredient(id)
    \/ \E h \in CallerHandles : MealAddIngredient(h)
    \/ \E id \in IdSpace : MealRemoveIngredient(id)

\* The caller records nutrients of its ingredients and puts them in the recipe
\* and takes them out again.
RecipeNutritionNext ==
    \/ \E q \in QuantityArgs(Cardinality(CallerLive(heap))) : IngredientCtor(q)
    \/ \E h \in CallerHandles, k \in NutrientNames, v \in NutrientArgs :
           IngredientAddNutritionalInfo(h, k, v)
    \/ \E h \in CallerHandles : RecipeAddIngredient(h)
    \/ \E id \in IdSpace : RecipeRemoveIngredient(id)

\* The caller records nutrients of its ingredients, puts them in the meal and
\* takes them out again, scales the meal and asks for its calories.
NutritionNext ==
    \/ \E q \in QuantityArgs(Cardinality(CallerLive(heap))) : IngredientCtor(q)
    \/ \E h \in CallerHandles, k \in NutrientNames, v \in NutrientArgs :
           IngredientAddNutritionalInfo(h, k, v)
    \/ \E h \in CallerHandles : MealAddIngredient(h)
    \/ \E id \in IdSpace : MealRemoveIngredient(id)
    \/ \E n \in ServingArgs : MealScaleServings(n)
    \/ MealCalculateNutritionalValue

\* The caller puts ingredients in the meal, takes them out, sets its status and
\* asks whether it is complete.
StatusNext ==
    \/ \E q \in QuantityArgs(Cardinality(CallerLive(heap))) : IngredientCtor(q)
    \/ \E h \in CallerHandles : MealAddIngredient(h)
    \/ \E id \in IdSpace : MealRemoveIngredient(id)
    \/ \E status \in Statuses : MealSetStatus(status)
    \/ MealIsComplete

\* One Ingredient object held by two meals and a recipe.
SharingNext ==
    \/ \E q \in QuantityArgs(Cardinality(CallerLive(heap))) : IngredientCtor(q)
    \/ \E p \in PriceArgs : IngredientSetUnitPrice(1, p)
    \/ \E h \in CallerHandles : RecipeAddIngredient(h)
    \/ \E h \in CallerHandles : MealAddIngredient(h)
    \/ \E h \in CallerHandles : OtherMealAddIngredient(h)
    \/ \E n \in ServingArgs : MealScaleServings(n)
    \/ OtherMealUpdateCost
(***************************************************************************)
(* The specifications: the step list of a recipe under any sequence of     *)
(* step calls, and the meal, recipe and ingredients under any sequence of  *)
(* the other calls, and the repository under any sequence of its calls.   *)
(***************************************************************************)
StepInit ==
    /\ steps = <<>>
    /\ stepCall = [op |-> "Recipe", a |-> 0, b |-> 0,
                   content |-> NoContent, pre |-> <<>>, threw |-> FALSE]

Next ==
    \/ \E step \in StepArgs : AddStep(step)
    \/ \E o \in OrderArgs : RemoveStep(o)
    \/ \E o \in OrderArgs, n \in OrderArgs : ReorderStep(o, n)

vars == <<steps, stepCall, heap, recipe, meal, otherMeal, ownRecipe, mealCall,
          storage, storageCall, mutex, running>>

Init == StepInit /\ MealInit /\ StorageInit

Spec == Init /\ [][Next]_vars

MealSpec == Init /\ [][MealNext]_vars

MealRecipeSpec == Init /\ [][MealRecipeNext]_vars

IngredientSpec == Init /\ [][IngredientNext]_vars

SnapshotSpec == Init /\ [][SnapshotNext]_vars

RecipeNutritionSpec == Init /\ [][RecipeNutritionNext]_vars

NutritionSpec == Init /\ [][NutritionNext]_vars

StatusSpec == Init /\ [][StatusNext]_vars

RemovalSpec == Init /\ [][RemovalNext]_vars

StorageSpec == Init /\ [][StorageNext]_vars

SharingSpec == Init /\ [][SharingNext]_vars

LockSpec == Init /\ [][LockNext]_vars
(***************************************************************************)
(* Properties of the step list.                                            *)
(***************************************************************************)
\* The step of vector s that holds order o (orders are pairwise distinct).
StepWithOrder(s, o) == s[FindOrder(s, o)]

Contiguous(s) == Orders(s) = 1 .. Len(s)

StrictlySorted(s) == \A i \in 1 .. (Len(s) - 1) : s[i].order < s[i + 1].order

StepCallDone(op) == stepCall.op = op /\ ~stepCall.threw

\* C1: after any sequence of addStep, removeStep and reorderStep calls, accepted
\* or rejected, the set of step orders is exactly 1..N for the N steps held: no
\* gap and no duplicate.
C1_StepOrdersContiguous == Contiguous(steps)

\* C2: every reorderStep(oldOrder, newOrder) that succeeds on a recipe whose orders
\* are exactly 1..N (any newOrder > 0, newOrder > N included) leaves the orders
\* exactly 1..N.
C2_ReorderKeepsContiguous ==
    (StepCallDone("reorderStep") /\ Contiguous(stepCall.pre)) => Contiguous(steps)

\* Where reorderStep(oldOrder, newOrder) is to put the step that held order o.
ReorderTarget(o, oldOrder, newOrder) ==
    IF o = oldOrder THEN newOrder
    ELSE IF oldOrder < o /\ o <= newOrder THEN o - 1
    ELSE IF newOrder <= o /\ o < oldOrder THEN o + 1
    ELSE o

\* C3: on orders 1..N with both arguments in 1..N, reorderStep gives the moved
\* step the order newOrder, moves every step between the two positions (the one at
\* newOrder included) by one toward oldOrder, leaves the other orders alone and
\* keeps the vector sorted; on {1,2,3}, reorderStep(3,1) yields step3, step1, step2
\* at orders 1, 2, 3.
C3_ReorderPermutes ==
    (/\ StepCallDone("reorderStep")
     /\ Contiguous(stepCall.pre)
     /\ stepCall.a \in 1 .. Len(stepCall.pre)
     /\ stepCall.b \in 1 .. Len(stepCall.pre))
    => /\ Len(steps) = Len(stepCall.pre)
       /\ StrictlySorted(steps)
       /\ \A i \in 1 .. Len(stepCall.pre) :
            LET target == ReorderTarget(stepCall.pre[i].order, stepCall.a, stepCall.b)
            IN  /\ Cardinality({ j \in 1 .. Len(steps) : steps[j].order = target }) = 1
                /\ Content(StepWithOrder(steps, target)) = Content(stepCall.pre[i])
       /\ (Len(stepCall.pre) = 3 /\ stepCall.a = 3 /\ stepCall.b = 1)
            => steps = << [stepCall.pre[3] EXCEPT !.order = 1],
                          [stepCall.pre[1] EXCEPT !.order = 2],
                          [stepCall.pre[2] EXCEPT !.order = 3] >>

\* reorderStep(3, 1) has run on steps holding orders 1, 2, 3 with the moved step
\* differing in content from the step it displaces.
C3_Witness ==
    /\ StepCallDone("reorderStep")
    /\ Contiguous(stepCall.pre)
    /\ Len(stepCall.pre) = 3
    /\ stepCall.a = 3
    /\ stepCall.b = 1
    /\ Content(stepCall.pre[3]) # Content(stepCall.pre[1])

\* C4: addStep with order k > 0 while a step holds order k moves every step with
\* order >= k up by one, leaves the steps below k alone, and inserts the new step
\* so that exactly one step holds k afterwards and it is the new one; the count
\* grows by exactly one.
C4_AddStepShifts ==
    (StepCallDone("addStep") /\ stepCall.a \in Orders(stepCall.pre))
    => /\ Len(steps) = Len(stepCall.pre) + 1
       /\ \A i \in 1 .. Len(stepCall.pre) :
            LET o == stepCall.pre[i].order
                target == IF o >= stepCall.a THEN o + 1 ELSE o
            IN  /\ Cardinality({ j \in 1 .. Len(steps) : steps[j].order = target }) = 1
                /\ Content(StepWithOrder(steps, target)) = Content(stepCall.pre[i])
       /\ Cardinality({ j \in 1 .. Len(steps) : steps[j].order = stepCall.a }) = 1
       /\ Content(StepWithOrder(steps, stepCall.a)) = stepCall.content

\* addStep has claimed an occupied order with steps both below and above it, the
\* new step differing in content from the one that held the order.
C4_Witness ==
    /\ StepCallDone("addStep")
    /\ stepCall.a \in Orders(stepCall.pre)
    /\ \E o \in Orders(stepCall.pre) : o < stepCall.a
    /\ \E o \in Orders(stepCall.pre) : o > stepCall.a
    /\ Content(StepWithOrder(stepCall.pre, stepCall.a)) # stepCall.content

\* C5: removeStep(k), when a step holds order k, removes exactly that step and
\* renumbers the remaining ones 1..N-1 in their previous relative sequence,
\* whatever the orders were before (contiguous or not).
C5_RemoveRenumbers ==
    (StepCallDone("removeStep") /\ stepCall.a \in Orders(stepCall.pre))
    => LET removed == FindOrder(stepCall.pre, stepCall.a)
       IN  /\ Len(steps) = Len(stepCall.pre) - 1
           /\ \A j \in 1 .. Len(steps) :
                /\ steps[j].order = j
                /\ Content(steps[j]) =
                       Content(stepCall.pre[IF j < removed THEN j ELSE j + 1])

\* removeStep has removed a middle step from orders that had a gap.
C5_Witness ==
    /\ StepCallDone("removeStep")
    /\ stepCall.a \in Orders(stepCall.pre)
    /\ ~Contiguous(stepCall.pre)
    /\ Len(stepCall.pre) = 3
    /\ FindOrder(stepCall.pre, stepCall.a) = 2
    /\ Content(stepCall.pre[1]) # Content(stepCall.pre[3])


(***************************************************************************)
(* Claims about Meal::scaleServings, Meal::setServings and Meal::setRecipe *)
(***************************************************************************)
\* What a step that rescales the meal from its serving count to n leaves: the
\* list as it was, every quantity times n / servings, every unit price as it
\* was, servings n, and estimatedCost the sum of the costs of the ingredients.
RescaledTo(n) ==
    /\ ~mealCall'.threw
    /\ meal'.servings = n
    /\ meal'.ingredients = meal.ingredients
    /\ \A i \in 1 .. Len(meal.ingredients) :
          /\ heap'[meal.ingredients[i]].quantity =
                 Times(heap[meal.ingredients[i]].quantity,
                       IntRatio(n, meal.servings))
          /\ heap'[meal.ingredients[i]].unitPrice =
                 heap[meal.ingredients[i]].unitPrice
    /\ meal'.estimatedCost = CostOf(heap', meal'.ingredients)

\* C6: Meal.scaleServings(n) with n > 0, on a meal whose serving count is
\* positive, changes nothing when n is the current serving count; otherwise every
\* ingredient's quantity becomes oldQuantity * n / oldServings, the serving count
\* becomes n, the unit prices stay, and estimatedCost becomes the sum of the
\* rescaled ingredient costs.
C6_ScaleServingsRescales ==
    [][\A n \in 1 .. MaxServings :
          (MealScaleServings(n) /\ meal.servings > 0) =>
              IF n = meal.servings
              THEN UNCHANGED <<heap, meal>>
              ELSE RescaledTo(n)]_vars

\* C7: Meal.setServings(n) with n > 0 and n different from the current serving
\* count, itself positive, behaves like scaleServings(n): every quantity is multiplied by
\* n / currentServings, the serving count becomes n, and estimatedCost is the new
\* sum of the ingredient costs.
C7_SetServingsRescales ==
    [][\A n \in 1 .. MaxServings :
          (MealSetServings(n) /\ n # meal.servings /\ meal.servings > 0) =>
              RescaledTo(n)]_vars

\* C8: Meal.setRecipe(r) with a recipe r, on a meal with serving count s > 0,
\* leaves copies of the recipe's ingredients whose quantities are the recipe's
\* quantities times s / r.servings, and estimatedCost the sum of the copies' costs.
C8_SetRecipeRescales ==
    [][(MealSetRecipe /\ meal.servings > 0) =>
          /\ ~mealCall'.threw
          /\ Len(meal'.ingredients) = Len(recipe.ingredients)
          /\ \A i \in 1 .. Len(recipe.ingredients) :
                heap'[meal'.ingredients[i]].quantity =
                    Times(heap[recipe.ingredients[i]].quantity,
                          IntRatio(meal.servings, recipe.servings))
          /\ meal'.estimatedCost = CostOf(heap', meal'.ingredients)]_vars

(***************************************************************************)
(* Claims about serialisation and the serving counts                       *)
(***************************************************************************)
\* C9: serialize followed by deserialize is the identity: Recipe::deserialize of
\* r.serialize() returns a recipe equal to r on every field, its ingredient and
\* step lists included, and Meal::deserialize of m.serialize() returns a meal
\* equal to m on every field, its ingredient list and its recipe included.
C9_RoundTripIdentity ==
    /\ mealCall.op = "Recipe::roundTrip" => mealCall.out = Returned(CurrentRecipe)
    /\ mealCall.op = "Meal::roundTrip" => mealCall.out = Returned(CurrentMeal)

\* C10: the serving count of the Meal and of every Recipe is > 0 in every
\* reachable state, after deserialize of a document with servings <= 0 too.
C10_ServingsPositive ==
    /\ meal.servings > 0
    /\ recipe.servings > 0
    /\ ownRecipe.present => ownRecipe.v.servings > 0

(***************************************************************************)
(* Claims about the estimated cost and the snapshot a meal takes           *)
(***************************************************************************)
\* A Meal call that changes the ingredient list or the quantities: addIngredient,
\* removeIngredient of a listed id, setRecipe with a recipe, scaleServings and
\* setServings to another serving count, and updateCost.
MealMutation ==
    \/ \E h \in CallerHandles : MealAddIngredient(h)
    \/ \E id \in IdSpace :
           MealRemoveIngredient(id) /\ FindId(heap, meal.ingredients, id) # 0
    \/ MealSetRecipe
    \/ \E n \in 1 .. MaxServings :
           n # meal.servings /\ (MealScaleServings(n) \/ MealSetServings(n))
    \/ MealUpdateCost

\* C11: after every Meal operation that changes its ingredient list or its
\* quantities (on a meal whose serving count is positive), estimatedCost is the
\* sum over the meal's ingredients of quantity * unitPrice; a freshly
\* constructed meal has cost 0.
C11_CostIsSumAfterMutation ==
    /\ meal.estimatedCost = Zero
    /\ [][(MealMutation /\ meal.servings > 0) =>
              meal'.estimatedCost = CostOf(heap', meal'.ingredients)]_vars

\* The calls on the recipe's side: on the ingredients the caller and the recipe
\* share, and on the recipe's list.
RecipeSide ==
    \/ \E h \in CallerHandles, p \in PriceArgs : IngredientSetUnitPrice(h, p)
    \/ \E h \in CallerHandles, f \in FactorArgs : IngredientScale(h, f)
    \/ \E h \in CallerHandles : RecipeAddIngredient(h)
    \/ \E id \in IdSpace : RecipeRemoveIngredient(id)

\* The calls on the meal's side.
MealSide ==
    \/ \E n \in ServingArgs : MealScaleServings(n)
    \/ \E id \in IdSpace : MealRemoveIngredient(id)

\* C12: setRecipe(r) leaves the meal with r as its recipe and with as many
\* ingredients as r, none of them an object of r; from then on scaling the meal
\* or removing one of its ingredients leaves the list of r and every ingredient
\* of r as they were, and a change of an ingredient of r or of the list of r
\* leaves the meal's list, its ingredients and its estimated cost as they were.
C12_SnapshotIndependent ==
    [][/\ MealSetRecipe =>
            /\ meal'.recipe = "caller"
            /\ Len(meal'.ingredients) = Len(recipe.ingredients)
            /\ Range(meal'.ingredients) \cap Range(recipe.ingredients) = {}
       /\ (meal.recipe = "caller" /\ MealSide) =>
            /\ recipe' = recipe
            /\ Deref(heap', recipe.ingredients) = Deref(heap, recipe.ingredients)
       /\ (meal.recipe = "caller" /\ RecipeSide) =>
            /\ meal'.ingredients = meal.ingredients
            /\ Deref(heap', meal.ingredients) = Deref(heap, meal.ingredients)
            /\ meal'.estimatedCost = meal.estimatedCost]_vars

\* A meal planned from a recipe and then scaled: its copy of an ingredient no
\* longer has the quantity of the recipe's ingredient.
C12_Witness ==
    /\ meal.recipe = "caller"
    /\ mealCall.op = "Meal::scaleServings"
    /\ ~mealCall.threw
    /\ Len(meal.ingredients) = Len(recipe.ingredients)
    /\ \E i \in 1 .. Len(meal.ingredients) :
           /\ heap[meal.ingredients[i]].id = heap[recipe.ingredients[i]].id
           /\ heap[meal.ingredients[i]].quantity # heap[recipe.ingredients[i]].quantity

\* The serving counts handed to two scaleServings calls in a row.
MaxScale == 3

ScaleArgs == 1 .. MaxScale

\* The heap and the Meal a scaleServings(newServings) that returns leaves.
ScaledTo(at, newServings) ==
    LET h == ScaleServingsHeap(at.heap, at.meal, newServings)
    IN  [heap |-> h, meal |-> ScaleServingsMeal(h, at.meal, newServings)]

Here == [heap |-> heap, meal |-> meal]

\* getQuantity() of each ingredient of the meal, in list order.
Quantities(at) ==
    [i \in 1 .. Len(at.meal.ingredients) |-> at.heap[at.meal.ingredients[i]].quantity]

C14_InvalidStepRejected ==
    /\ (stepCall.op = "addStep" /\ stepCall.a <= 0) =>
           (stepCall.threw /\ steps = stepCall.pre)
    /\ (/\ stepCall.op = "reorderStep"
        /\ \/ stepCall.a <= 0
           \/ stepCall.b <= 0
           \/ \A i \in 1 .. Len(stepCall.pre) : stepCall.pre[i].order # stepCall.a) =>
           (stepCall.threw /\ steps = stepCall.pre)

\* A reorderStep to order 0 of a step the list has, among several steps, and
\* raised.
C14_Witness ==
    /\ stepCall.op = "reorderStep"
    /\ stepCall.threw
    /\ stepCall.b <= 0
    /\ Len(steps) > 1
    /\ \E i \in 1 .. Len(steps) : steps[i].order = stepCall.a

\* The calls on the meal with an argument it must reject.
MealInvalidCall ==
    \/ mealCall'.op = "Meal::setName" /\ MealSetName("")
    \/ /\ mealCall'.op \in { "Meal::setServings", "Meal::scaleServings" }
       /\ \E n \in ServingArgs : n <= 0 /\ (MealSetServings(n) \/ MealScaleServings(n))
    \/ mealCall'.op = "Meal::addIngredient(nullptr)" /\ MealAddIngredientNull

\* C15: setName(""), setServings(n) and scaleServings(n) with n <= 0, and
\* addIngredient(nullptr) raise and leave the meal (name, servings, list,
\* estimated cost) and every ingredient as they were.
C15_InvalidMealInputRejected ==
    [][MealInvalidCall => (mealCall'.threw /\ meal' = meal /\ heap' = heap)]_vars

\* A setServings call that raised on a meal with ingredients and a cost.
C15_Witness ==
    /\ mealCall.op = "Meal::setServings"
    /\ mealCall.threw
    /\ Len(meal.ingredients) > 0
    /\ meal.estimatedCost # Zero
    /\ meal.servings > 1

\* C16: every Ingredient, and the Recipe and the Meal, has a non-empty name in
\* every reachable state, and a constructor call does not return an object with
\* an empty name.
C16_NamesNonEmpty ==
    /\ \A h \in DOMAIN heap : heap[h].name # ""
    /\ recipe.name # ""
    /\ meal.name # ""

\* x >= 0 (false for NaN)
AtLeastZero(x) == x.n > 0 \/ (x.n = 0 /\ x.d # 0)

\* C17: the quantity, the unit price and every nutrient value of every
\* Ingredient are >= 0 in every reachable state.
C17_NeverNegative ==
    \A h \in DOMAIN heap :
        /\ AtLeastZero(heap[h].quantity)
        /\ AtLeastZero(heap[h].unitPrice)
        /\ \A k \in DOMAIN heap[h].nutritionalInfo :
               AtLeastZero(heap[h].nutritionalInfo[k])

\* C18: no two distinct live Ingredient objects carry the same id; stated here
\* for the objects Meal::setRecipe has just made against the caller's objects.
C18_CopiesHaveOwnIds ==
    (mealCall.op = "Meal::setRecipe" /\ meal.recipe = "caller") =>
        \A i \in 1 .. Len(meal.ingredients), h \in CallerLive(heap) :
            meal.ingredients[i] # h => heap[meal.ingredients[i]].id # heap[h].id

\* An ingredient whose quantity, unit price and nutrient values are all numbers.
AllFinite(ing) ==
    /\ IsFinite(ing.quantity)
    /\ IsFinite(ing.unitPrice)
    /\ \A k \in DOMAIN ing.nutritionalInfo : IsFinite(ing.nutritionalInfo[k])

\* C19: Ingredient::deserialize(i.serialize()) returns an ingredient equal to i
\* on every field (id, name, quantity, unit, unit price, expiry date, nutrient
\* map); stated here for the ingredients whose numbers are all finite.
C19_IngredientRoundTrip ==
    [][\A h \in CallerHandles :
           (IngredientRoundTrip(h) /\ AllFinite(heap[h])) =>
               mealCall'.out = Returned(heap[h])]_vars

\* C20: after an add that returned, get of the entity's id gives the entity;
\* after remove(id), get(id) gives nothing; remove of an id that is not stored
\* changes nothing; and each of the three maps holds at most one entry per id
\* after any sequence of add, update, remove and clear.
C20_RepositoryCrud ==
    /\ (storageCall.op = "add" /\ ~storageCall.threw) =>
           Get(storage[storageCall.kind], storageCall.e.id) = storageCall.e
    /\ storageCall.op = "remove" =>
           /\ Get(storage[storageCall.kind], storageCall.e.id) = NullEntity
           /\ Get(storageCall.pre[storageCall.kind], storageCall.e.id) = NullEntity =>
                  storage = storageCall.pre
    /\ \A kind \in Kinds :
           \A x \in storage[kind], y \in storage[kind] : x.id = y.id => x = y

\* An add that returned, of an entity whose id was stored with other fields,
\* beside an entry with another id.
C20_Witness ==
    /\ storageCall.op = "add"
    /\ ~storageCall.threw
    /\ Get(storageCall.pre[storageCall.kind], storageCall.e.id) # NullEntity
    /\ Get(storageCall.pre[storageCall.kind], storageCall.e.id) # storageCall.e
    /\ Cardinality(storage[storageCall.kind]) = 2

\* C27: in every state reachable by addStep, removeStep and reorderStep calls
\* the step orders are pairwise distinct, each is >= 1, and the vector is sorted
\* by strictly increasing order, contiguous or not.
C27_StepOrdersDistinctSorted ==
    /\ \A i \in 1 .. Len(steps), j \in 1 .. Len(steps) :
           i # j => steps[i].order # steps[j].order
    /\ \A i \in 1 .. Len(steps) : steps[i].order >= 1
    /\ StrictlySorted(steps)

\* A reorderStep that returned on three steps whose orders had a gap and moved a
\* step down past another one, leaving a gap.
C27_Witness ==
    /\ StepCallDone("reorderStep")
    /\ Len(steps) = 3
    /\ ~Contiguous(stepCall.pre)
    /\ ~Contiguous(steps)
    /\ stepCall.b < stepCall.a
    /\ steps # stepCall.pre

\* The descriptions and durations of a step vector, in vector sequence.
Contents(s) == [i \in 1 .. Len(s) |-> Content(s[i])]

\* C28: a step operation that returns only renumbers. addStep adds exactly one
\* step, the one passed; removeStep of an order that is held removes exactly the
\* step holding it; reorderStep keeps the count and the moved step's content;
\* and in all three the other steps keep their descriptions and durations and
\* their sequence among themselves.
C28_StepContentKept ==
    /\ StepCallDone("addStep") =>
           LET at == FindOrder(steps, stepCall.a)
           IN  /\ Len(steps) = Len(stepCall.pre) + 1
               /\ at # 0
               /\ Content(steps[at]) = stepCall.content
               /\ Contents(Erase(steps, at)) = Contents(stepCall.pre)
    /\ (StepCallDone("removeStep") /\ stepCall.a \in Orders(stepCall.pre)) =>
           /\ Len(steps) = Len(stepCall.pre) - 1
           /\ Contents(steps) =
                  Contents(Erase(stepCall.pre, FindOrder(stepCall.pre, stepCall.a)))
    /\ StepCallDone("reorderStep") =>
           LET from == FindOrder(stepCall.pre, stepCall.a)
               to == FindOrder(steps, stepCall.b)
           IN  /\ Len(steps) = Len(stepCall.pre)
               /\ to # 0
               /\ Content(steps[to]) = Content(stepCall.pre[from])
               /\ Contents(Erase(steps, to)) = Contents(Erase(stepCall.pre, from))

\* A reorderStep that returned on a gapped list of four steps and changed the
\* position of a step whose content differs from its neighbours'.
C28_Witness ==
    /\ StepCallDone("reorderStep")
    /\ Len(steps) = 4
    /\ ~Contiguous(stepCall.pre)
    /\ Contents(steps) # Contents(stepCall.pre)
    /\ Cardinality({ Content(steps[i]) : i \in 1 .. Len(steps) }) = 2

\* removeStep of an order no step has.
RemoveStepOfAbsent ==
    /\ stepCall'.op = "removeStep"
    /\ \E o \in OrderArgs : o \notin Orders(steps) /\ RemoveStep(o)

\* Recipe::removeIngredient or Meal::removeIngredient of an id no ingredient of
\* the list has.
RemoveIngredientOfAbsent ==
    \/ /\ mealCall'.op = "Recipe::removeIngredient"
       /\ \E id \in IdSpace :
              FindId(heap, recipe.ingredients, id) = 0 /\ RecipeRemoveIngredient(id)
    \/ /\ mealCall'.op = "Meal::removeIngredient"
       /\ \E id \in IdSpace :
              FindId(heap, meal.ingredients, id) = 0 /\ MealRemoveIngredient(id)

\* C26: removeStep of an order no step has leaves the step vector as it is,
\* orders included; removeIngredient of an id that is not in the list, on the
\* Recipe or on the Meal, leaves the list, the recipe's nutrient totals, the
\* meal's estimated cost and every ingredient as they are; none of them raises.
C26_RemovalOfAbsentIgnored ==
    [][/\ RemoveStepOfAbsent => (steps' = steps /\ ~stepCall'.threw)
       /\ RemoveIngredientOfAbsent =>
              (recipe' = recipe /\ meal' = meal /\ heap' = heap /\ ~mealCall'.threw)]_vars

\* removeStep of an order that was not held has returned on two steps whose
\* orders have a gap, and Meal::removeIngredient has returned on a full list with
\* a cost (a removal that found its id leaves the list shorter).
C26_Witness ==
    /\ stepCall.op = "removeStep"
    /\ stepCall.a \notin Orders(stepCall.pre)
    /\ Len(steps) = MaxFewSteps
    /\ ~Contiguous(steps)
    /\ mealCall.op = "Meal::removeIngredient"
    /\ Len(meal.ingredients) = MaxListLen
    /\ meal.estimatedCost # Zero

\* The sum of nutrient k over a list of ingredients, one without it counting 0.
NutrientTotal(ings, k) ==
    SumOf([i \in 1 .. Len(ings) |->
              IF k \in DOMAIN ings[i].nutritionalInfo
              THEN ings[i].nutritionalInfo[k]
              ELSE Zero])

\* C25: every Recipe::addIngredient, and every Recipe::removeIngredient that
\* finds its id, leaves nutrient totals whose keys are exactly the nutrients some
\* ingredient now in the list has, each total the sum of that nutrient over the
\* ingredients in the list; a removal that finds nothing changes neither the
\* list nor the totals.
C25_NutrientTotalsAreSums ==
    [][/\ recipe'.ingredients # recipe.ingredients =>
            LET ings == Deref(heap', recipe'.ingredients)
            IN  /\ DOMAIN recipe'.nutritionalInfo =
                       UNION { DOMAIN ings[i].nutritionalInfo : i \in 1 .. Len(ings) }
                /\ \A k \in DOMAIN recipe'.nutritionalInfo :
                       recipe'.nutritionalInfo[k] = NutrientTotal(ings, k)
       /\ recipe'.ingredients = recipe.ingredients =>
            recipe'.nutritionalInfo = recipe.nutritionalInfo]_vars

\* Two ingredients that both list calories have been added, one of them with
\* protein too: the calories total is the sum of the two, the protein total the
\* one value.
C25_Witness ==
    /\ mealCall.op = "Recipe::addIngredient"
    /\ Len(recipe.ingredients) = 2
    /\ recipe.ingredients[1] # recipe.ingredients[2]
    /\ \A i \in 1 .. 2 : "calories" \in DOMAIN heap[recipe.ingredients[i]].nutritionalInfo
    /\ "protein" \in DOMAIN heap[recipe.ingredients[1]].nutritionalInfo
    /\ "protein" \notin DOMAIN heap[recipe.ingredients[2]].nutritionalInfo
    /\ recipe.nutritionalInfo["calories"] = Dbl(10, 1)
    /\ recipe.nutritionalInfo["protein"] = Dbl(5, 1)

\* C23: Meal::calculateNutritionalValue returns the sum of the "calories"
\* entries of the meal's current ingredients, an ingredient without one counting
\* 0 and every other nutrient ignored; and scaleServings leaves that sum as it
\* was.
C23_CaloriesAreSummed ==
    [][/\ (mealCall'.op = "Meal::calculateNutritionalValue"
               /\ MealCalculateNutritionalValue) =>
            mealCall'.out =
                Returned(NutrientTotal(Deref(heap, meal.ingredients), "calories"))
       /\ (mealCall'.op = "Meal::scaleServings"
               /\ \E n \in ServingArgs : MealScaleServings(n)) =>
            NutrientTotal(Deref(heap', meal'.ingredients), "calories") =
                NutrientTotal(Deref(heap, meal.ingredients), "calories")]_vars

\* The calories of a scaled meal of two ingredients have been asked for: one
\* ingredient lists calories and protein, the other protein alone.
C23_Witness ==
    /\ mealCall.op = "Meal::calculateNutritionalValue"
    /\ meal.servings = 2
    /\ Len(meal.ingredients) = 2
    /\ DOMAIN heap[meal.ingredients[1]].nutritionalInfo = { "calories", "protein" }
    /\ DOMAIN heap[meal.ingredients[2]].nutritionalInfo = { "protein" }
    /\ heap[meal.ingredients[1]].quantity # Dbl(1, 1)
    /\ mealCall.out = Returned(Dbl(5, 1))

\* C22: Meal::isComplete returns true exactly when the meal has an ingredient
\* and its status is not PLANNED; setStatus takes any of the five statuses from
\* any status, raises nothing and changes the status alone; so a meal with an
\* ingredient becomes complete straight from PLANNED, and a complete meal
\* becomes incomplete by setStatus(PLANNED) or by the removal of its last
\* ingredient.
C22_CompleteIffIngredientAndNotPlanned ==
    [][/\ (mealCall'.op = "Meal::isComplete" /\ MealIsComplete) =>
            mealCall'.out =
                Returned(Len(meal.ingredients) >= 1 /\ meal.status # PLANNED)
       /\ \A status \in Statuses :
            (mealCall'.op = "Meal::setStatus" /\ MealSetStatus(status)) =>
                /\ meal' = [meal EXCEPT !.status = status]
                /\ heap' = heap
                /\ ~mealCall'.threw
                /\ (meal.status = PLANNED /\ status # PLANNED
                        /\ Len(meal.ingredients) >= 1) =>
                       (~IsComplete(meal) /\ IsComplete(meal'))
                /\ (IsComplete(meal) /\ status = PLANNED) => ~IsComplete(meal')
       /\ (mealCall'.op = "Meal::removeIngredient" /\ IsComplete(meal)
               /\ Len(meal'.ingredients) = 0) =>
            ~IsComplete(meal')]_vars

\* isComplete has returned true for a meal of two ingredients set to CONSUMED.
C22_Witness ==
    /\ mealCall.op = "Meal::isComplete"
    /\ mealCall.out = Returned(TRUE)
    /\ Len(meal.ingredients) = 2
    /\ meal.status = CONSUMED

\* The meal's own ingredient list as a document holds it.
OwnIngredients(data) ==
    LET elems == Parse(data).v.ingredients.v
    IN  [i \in 1 .. Len(elems) |-> IngredientDeserialize(Dump(elems[i])).v]

\* C24: Meal::deserialize of a document with a recipe attached returns a meal
\* whose ingredient list is the document's own list for the meal, not the
\* recipe's list.
C24_DeserializedKeepsOwnList ==
    [][\A d \in MealWithRecipeDocs :
           (mealCall'.op = "Meal::deserialize" /\ ~mealCall'.threw
                /\ MealAssignDeserialized(d)) =>
               Deref(heap', meal'.ingredients) = OwnIngredients(d)]_vars

\* How many entries of a list hold the object h.
Occurrences(list, h) == Cardinality({ i \in 1 .. Len(list) : list[i] = h })

\* A quantity after k calls of scale(factor).
RECURSIVE ScaledTimes(_, _, _)
ScaledTimes(quantity, factor, k) ==
    IF k = 0 THEN quantity ELSE ScaledTimes(Times(quantity, factor), factor, k - 1)

\* getQuantity() through each entry of a holder's list, on the heap h.
SeenQuantities(h, list) == [i \in 1 .. Len(list) |-> h[list[i]].quantity]

\* The quantities a holder sees once the meal m has scaled its list by factor:
\* an object m holds too has been scaled, once for every entry m has of it.
SeenAfterScale(h, m, factor, list) ==
    [i \in 1 .. Len(list) |->
        ScaledTimes(h[list[i]].quantity, factor, Occurrences(m.ingredients, list[i]))]

\* C29: addIngredient stores the caller's Ingredient object itself. When a meal
\* returns from scaleServings(n) with n other than its serving count, every
\* other holder of one of its Ingredient objects (a second meal, a recipe) sees
\* the scaled quantity through its own list; the second meal itself is left as
\* it was, so its estimatedCost, if it was the sum of its ingredient costs and
\* that sum has changed, no longer is, until updateCost() on the second meal
\* makes it the sum again.
C29_SharedIngredientScaled ==
    [][/\ \A n \in ServingArgs :
              (mealCall'.op = "Meal::scaleServings" /\ ~mealCall'.threw
                   /\ n # meal.servings /\ MealScaleServings(n)) =>
                  /\ SeenQuantities(heap', otherMeal'.ingredients) =
                         SeenAfterScale(heap, meal, ScaleFactor(meal, n),
                                        otherMeal.ingredients)
                  /\ SeenQuantities(heap', recipe'.ingredients) =
                         SeenAfterScale(heap, meal, ScaleFactor(meal, n),
                                        recipe.ingredients)
                  /\ otherMeal' = otherMeal
                  /\ (/\ otherMeal.estimatedCost = CostOf(heap, otherMeal.ingredients)
                      /\ CostOf(heap', otherMeal.ingredients) #
                             CostOf(heap, otherMeal.ingredients))
                         => otherMeal'.estimatedCost #
                                CostOf(heap', otherMeal'.ingredients)
       /\ (mealCall'.op = "Meal::updateCost" /\ OtherMealUpdateCost) =>
              otherMeal'.estimatedCost = CostOf(heap', otherMeal'.ingredients)]_vars

\* scaleServings(2) has returned on a meal sharing its ingredient, made with
\* quantity 1, with the second meal and the recipe: both see quantity 2, and the
\* second meal's cost is still the one of quantity 1.
C29_Witness ==
    /\ mealCall.op = "Meal::scaleServings" /\ ~mealCall.threw
    /\ meal.servings = 2
    /\ meal.ingredients = <<1>> /\ otherMeal.ingredients = <<1>>
    /\ recipe.ingredients = <<1>>
    /\ SeenQuantities(heap, otherMeal.ingredients) = <<Dbl(2, 1)>>
    /\ SeenQuantities(heap, recipe.ingredients) = <<Dbl(2, 1)>>
    /\ otherMeal.estimatedCost = Dbl(1, 10)
    /\ CostOf(heap, otherMeal.ingredients) = Dbl(2, 10)

\* The maps an operation inside the repository has gone through so far.
MapsDone(r) ==
    IF r.op \in { "add", "remove", "get" }
    THEN IF r.maps = 0 THEN {} ELSE { r.kind }
    ELSE { KindOrder[i] : i \in 1 .. r.maps }

\* C21: every public Storage operation holds the one lock from its start to its
\* return.  So, with threads calling concurrently: no two threads are inside
\* the repository at once, and the thread inside holds the lock; from the
\* moment a reading operation (get, saveToFile) has the lock until it returns,
\* the three maps stay as they were at that moment, and what it has read of
\* them is what they held then; and while a saveToFile or loadFromFile is
\* inside, no step lets another thread in: it can only wait at the lock.
C21_LockSerializesRepository ==
    [][/\ \A t \in Threads, u \in Threads :
              (running'[t].at = "in" /\ running'[u].at = "in") => t = u
       /\ \A t \in Threads : running'[t].at = "in" => mutex' = t
       /\ \A t \in Threads :
              (running'[t].at = "in" /\ running'[t].op \in Readers) =>
                  /\ storage' = running'[t].pre
                  /\ \A k \in MapsDone(running'[t]) :
                         running'[t].seen[k] = running'[t].pre[k]
       /\ \A t \in Threads :
              (Inside(t) /\ running[t].op \in { "saveToFile", "loadFromFile" }) =>
                  \A u \in Threads \ { t } :
                      /\ running'[u].at # "in"
                      /\ running'[u].maps = running[u].maps]_vars

\* Thread 1 is in the middle of loadFromFile, the meals loaded and the recipes
\* not yet, while thread 2 has called saveToFile and waits at the lock.
C21_Witness ==
    /\ Inside(1) /\ running[1].op = "loadFromFile" /\ running[1].maps = 1
    /\ storage["meal"] = { LockEntity } /\ storage["recipe"] = {}
    /\ running[2].op = "saveToFile" /\ running[2].at = "lock"
    /\ mutex = 1
====
